---- MODULE Spec2Model ----
(***************************************************************************)
(* Sandboxed action execution: ActionServer, ActionExecutor and the        *)
(* Docker-backed container runtime (backend/runtime/action_executor.py,    *)
(* backend/runtime/docker_runtime.py).                                     *)
(*                                                                         *)
(* The program runs on one asyncio event loop: a coroutine runs without    *)
(* interruption from one await that really suspends to the next.  Every    *)
(* action below is one such run: an API call that never suspends is one    *)
(* action, and a coroutine that suspends (on an engine subprocess, on the  *)
(* runtime lock, on `await task`) is resumed by a later action.            *)
(***************************************************************************)
EXTENDS Integers, Sequences, FiniteSets, TLC

\* Number of submit_action calls explored (uuid4 tokens handed out).
MaxActions == 2
\* Number of containers the engine will create before `docker create` fails.
MaxContainers == 2
\* Number of cancel_action callers that may be suspended on one task at once.
MaxWaiters == 1
\* Longest string given to a ResourceLimits field.
MaxLen == 2
\* Number of agents the database will create, and of concurrent callers of
\* the AgentController.
MaxAgents == 2
MaxCallers == 2
\* Number of conversations the database will create.
MaxSessions == 1

\* Slot 0 is a caller that uses ActionExecutor / DockerRuntime directly
\* (await executor.execute_action(...), await runtime.create_container(...));
\* slots 1..MaxActions are the tasks created by ActionServer.submit_action.
Ids == 1..MaxActions
Slots == 0..MaxActions
Cids == 1..MaxContainers

VARIABLES
    running_actions,   \* ActionServer._running_actions: the keys (each maps to its task)
    next_uuid,         \* the next uuid4 token, modelled as a fresh counter
    tasks,             \* per slot: the coroutine frame / asyncio.Task state
    request,           \* per slot: the ActionRequest the coroutine was called with
    action_response,   \* per slot: the ActionResponse object built by execute_action
    awaiting,          \* per id: cancel_action callers suspended at `await task`
    last,              \* the most recent return of an ActionServer call
    runtime,           \* ActionExecutor._runtime: "None" or "set"
    action_handlers,   \* ActionExecutor._action_handlers: the registered action types
    factory_instance,  \* DockerRuntimeFactory._instance is not None
    initialized,       \* DockerRuntime._initialized
    runtime_lock,      \* DockerRuntime._lock: the slot holding it, or -1
    containers,        \* DockerRuntime._containers: cid -> "absent" | "running" | "stopped"
    engine,            \* the container engine's own view: cid -> "none" (never
                       \* created) | "created" | "running" | "exited" | "removed"
    default_config,    \* SandboxConfigManager._default_config
    config_ret,        \* the most recent return of a SandboxConfigManager call
    limits,            \* the most recent ResourceLimits(...) construction
    agents,            \* AgentController._agents: agent id -> "absent" or its state
    agent_lock,        \* AgentController._agent_lock
    task_lock,         \* AgentController._task_lock
    running_tasks,     \* AgentController._running_tasks: the keys
    bg,                \* per agent id: the task created by run_agent(background=True)
    ctl,               \* per caller: the frame of its AgentController call
    sessions,          \* per session id: the Session object and its place in
                       \* ConversationManager._sessions
    mgr                \* the frame of the ConversationManager method being awaited

vars == <<running_actions, next_uuid, tasks, request, action_response, awaiting,
          last, runtime, action_handlers, factory_instance, initialized,
          runtime_lock, containers, engine, default_config, config_ret, limits,
          agents, agent_lock, task_lock, running_tasks, bg, ctl, sessions, mgr>>

\* The variables of the components beside the sandbox runtime.
configVars == <<default_config, config_ret, limits>>
agentVars == <<agents, agent_lock, task_lock, running_tasks, bg, ctl>>
sessionVars == <<sessions, mgr>>
AppsUnchanged == UNCHANGED <<configVars, agentVars, sessionVars>>

\* The variables of the sandbox runtime and its action server.
CoreUnchanged ==
    UNCHANGED <<running_actions, next_uuid, tasks, request, action_response, awaiting,
                last, runtime, action_handlers, factory_instance, initialized,
                runtime_lock, containers, engine>>

BesideConfig == CoreUnchanged /\ UNCHANGED <<agentVars, sessionVars>>
BesideAgents == CoreUnchanged /\ UNCHANGED <<configVars, sessionVars>>
BesideSessions == CoreUnchanged /\ UNCHANGED <<configVars, agentVars>>

----------------------------------------------------------------------------
(* Enumerations *)

ActionType == {"execute_command", "run_code", "transfer_file", "get_file",
               "put_file", "delete_file", "list_directory", "check_status",
               "custom"}

ActionStatus == {"pending", "running", "completed", "failed", "timed_out",
                 "cancelled"}

TerminalStatus == {"completed", "failed", "timed_out", "cancelled"}

\* _register_default_handlers_sync: every type except CUSTOM.
DefaultHandlers == ActionType \ {"custom"}

\* A task is done() once its coroutine returned, raised or was cancelled.
DonePc == {"returned", "raised", "cancelled"}

Done(a) == tasks[a].pc \in DonePc

----------------------------------------------------------------------------
(* Requests.  parameters is a dict; parameters.get(k) is None for a missing *)
(* key.  String values: "None" (missing), "" (empty), anything else is a    *)
(* non-empty string.  container_id: 0 is None/missing, -1 is the empty      *)
(* string, c >= 1 names container c.                                        *)

NoParameters ==
    [command |-> "None", code |-> "None", language |-> "None",
     source_path |-> "None", destination_path |-> "None",
     container_path |-> "None", host_path |-> "None", file_path |-> "None",
     directory_path |-> "None", container_id |-> 0]

StrValues == {"None", "", "x"}
LanguageValues == {"None", "python", "javascript", "bash", "ruby"}
ContainerIdValues == {-1, 0} \cup Cids

\* Python truthiness of a parameter value (`if not command`).
Truthy(v) == v \notin {"None", ""}
TruthyId(c) == c > 0

Req(t, p) == [action_type |-> t, parameters |-> p]

AllRequests ==
    {Req("execute_command", [NoParameters EXCEPT !.command = c, !.container_id = k]) :
        c \in StrValues, k \in ContainerIdValues}
    \cup
    {Req("run_code", [NoParameters EXCEPT !.code = c, !.language = l, !.container_id = k]) :
        c \in StrValues, l \in LanguageValues, k \in ContainerIdValues}
    \cup
    {Req(t, [NoParameters EXCEPT !.source_path = s, !.destination_path = d, !.container_id = k]) :
        t \in {"transfer_file", "put_file"}, s \in StrValues, d \in StrValues,
        k \in ContainerIdValues}
    \cup
    {Req("get_file", [NoParameters EXCEPT !.container_path = s, !.host_path = d, !.container_id = k]) :
        s \in StrValues, d \in StrValues, k \in ContainerIdValues}
    \cup
    {Req("delete_file", [NoParameters EXCEPT !.file_path = s, !.container_id = k]) :
        s \in StrValues, k \in ContainerIdValues}
    \cup
    {Req("list_directory", [NoParameters EXCEPT !.directory_path = s, !.container_id = k]) :
        s \in StrValues, k \in ContainerIdValues}
    \cup
    {Req("check_status", [NoParameters EXCEPT !.container_id = k]) :
        k \in ContainerIdValues}
    \cup
    {Req("custom", NoParameters)}

\* The requests submitted through the ActionServer in Spec: one that drives
\* the runtime (a temporary container, then an exec) and one CUSTOM request.
ServerRequests ==
    {Req("execute_command", [NoParameters EXCEPT !.command = "x"]),
     Req("custom", NoParameters)}

NoRequest == Req("custom", NoParameters)

\* Requests for the handler a caller registered under ActionType.CUSTOM.
CustomRequests == {Req("custom", NoParameters)}

\* Commands for a container the caller names.
SharedRequests ==
    {Req("execute_command", [NoParameters EXCEPT !.command = "x", !.container_id = k]) :
        k \in Cids}

----------------------------------------------------------------------------
(* Frames and responses *)

\* Optional values are sequences of length at most one: <<>> is None.
NoResponse ==
    [status |-> "none", result |-> <<>>, error |-> <<>>, temp_container |-> <<>>]

----------------------------------------------------------------------------
(* Sandbox configuration (backend/runtime/config.py).  A string is a        *)
(* sequence of one-character strings.                                       *)

SandboxType == {"docker", "local", "kubernetes", "remote"}

\* The values a caller passes as sandbox_type.
TypeInputs == SandboxType \cup {"bogus", "DOCKER", ""}

Digits == {"0", "1"}
Strings == UNION {[1..n -> Digits \cup {".", "G"}] : n \in 0..MaxLen}

\* str.isdigit(): non-empty and every character a digit.
isdigit(v) == Len(v) > 0 /\ \A i \in 1..Len(v) : v[i] \in Digits

\* str.count(ch)
count(v, ch) == Cardinality({i \in 1..Len(v) : v[i] = ch})

\* str.replace(ch, "", 1): the first occurrence of ch removed.
replace_first(v, ch) ==
    IF count(v, ch) = 0
    THEN v
    ELSE LET k == CHOOSE i \in 1..Len(v) :
                      v[i] = ch /\ \A j \in 1..(i - 1) : v[j] # ch
         IN  SubSeq(v, 1, k - 1) \o SubSeq(v, k + 1, Len(v))

\* The validators return TRUE where the code returns v and FALSE where it
\* raises ValueError.
validate_cpu(v) ==
    isdigit(v) \/ (isdigit(replace_first(v, ".")) /\ count(v, ".") < 2)

valid_suffixes == {"K", "M", "G", "T"}

validate_memory(v) ==
    IF Len(v) < 2
    THEN FALSE
    ELSE ~(v[Len(v)] \notin valid_suffixes /\ ~isdigit(v))

validate_disk(v) ==
    IF Len(v) < 2
    THEN FALSE
    ELSE ~(v[Len(v)] \notin valid_suffixes /\ ~isdigit(v))

\* The field defaults of ResourceLimits; timeout is an int with no validator.
DefaultLimits ==
    [cpu |-> <<"1">>, memory |-> <<"1", "G">>, disk |-> <<"1", "0", "G">>,
     timeout |-> 300]

\* The keyword arguments explored: one field given, the others defaulted.
LimitsKwargs ==
    {[DefaultLimits EXCEPT ![f] = v] : f \in {"cpu", "memory", "disk"}, v \in Strings}
        \cup {[DefaultLimits EXCEPT !.timeout = t] : t \in {-1, 0, 1, 300}}

\* ResourceLimits(**kw): the model instance, or pydantic's ValidationError
\* when a validator raises.
ResourceLimits(kw) ==
    IF validate_cpu(kw.cpu) /\ validate_memory(kw.memory) /\ validate_disk(kw.disk)
    THEN [raised |-> FALSE, built |-> TRUE, value |-> kw]
    ELSE [raised |-> TRUE, built |-> FALSE, value |-> DefaultLimits]

NoConfig == [sandbox_type |-> "none"]

\* SandboxConfig(sandbox_type=t, ...) accepts every type without a check.
SandboxConfig_unchecked(t) ==
    [raised |-> FALSE, value |-> [sandbox_type |-> t]]

\* SandboxConfig(sandbox_type=t): the enum field accepts the four values of
\* SandboxType and pydantic raises ValidationError for any other.
SandboxConfig(t) ==
    IF t \in SandboxType
    THEN [raised |-> FALSE, value |-> [sandbox_type |-> t]]
    ELSE [raised |-> TRUE, value |-> NoConfig]

----------------------------------------------------------------------------
(* The agent controller (backend/controllers/agent_controller.py) and the   *)
(* agents it runs (backend/agents/base.py).                                 *)

AgentIds == 1..MaxAgents
Callers == 1..MaxCallers

\* An asyncio.Lock: holder is 0 when it is not locked (the lock itself keeps
\* only a flag; the holder is kept to tell who locked it), waiters the FIFO
\* of tasks suspended in acquire().
FreeLock == [holder |-> 0, waiters |-> <<>>]

\* acquire() returns without suspending only if the lock is not locked and
\* has no waiter.
LockFree(l) == l.holder = 0 /\ l.waiters = <<>>

\* release() unlocks and wakes the first waiter, which takes the lock when it
\* next runs.
Woken(l, t) == l.holder = 0 /\ l.waiters # <<>> /\ Head(l.waiters) = t

\* A waiter that is cancelled leaves the queue.
Without(q, t) == SelectSeq(q, LAMBDA x : x # t)

\* BaseAgent.is_active: false in the states ERROR and COMPLETED.
is_active(state) == state \notin {"error", "completed"}

\* The task of _run_agent_task: pc is "none" (never created), "created",
\* "lock_wait" (in `async with self._task_lock`), "thinking" and "executing"
\* (the two sleeps of SimpleChatAgent.run), "done" or "cancelled".
NoTask == [pc |-> "none", must_cancel |-> FALSE]
TaskOver(t) == t.pc \in {"none", "done", "cancelled"}

\* A caller's frame: call is the controller method awaited, inner the method
\* that one is itself awaiting, pc where the coroutine is suspended.
IdleCall ==
    [call |-> "none", inner |-> "none", agent_id |-> 0, pc |-> "idle", ret |-> "None"]

----------------------------------------------------------------------------
(* Conversation sessions (backend/services/conversation_manager.py)         *)

SessionIds == 1..MaxSessions

\* The two tasks that take a Session's lock: the ConversationManager method
\* being awaited and the session's timeout_handler task.
MgrTask == 1
TimerTask == 2

\* status: "none" (the conversation does not exist yet), "active",
\* "completed" or "canceled"; in_table: the object is in
\* ConversationManager._sessions; completed_at: it has been assigned;
\* messages: Session._messages is not empty; lock: Session._lock; timer: the
\* task in Session._timeout_task, "none", "sleeping" (in asyncio.sleep),
\* "lock_wait" and "db" (in self.complete()) or "over".
NoSession ==
    [in_table |-> FALSE, status |-> "none", completed_at |-> FALSE,
     messages |-> FALSE, lock |-> FreeLock, timer |-> "none"]

IdleMgr == [call |-> "none", sid |-> 0, pc |-> "idle", ret |-> "None"]

\* call: which coroutine the frame runs; options: the type of the options
\* object handed to create_container; container_id: the local variable;
\* ret: what a call of a DockerRuntime method returned to a direct caller
\* (or the message of the exception it raised); keys: the ids cleanup_all
\* copied from the table when it started; todo: those its loop has yet to visit.
IdleFrame ==
    [pc |-> "idle", call |-> "none", options |-> "SandboxRuntimeOptions",
     must_cancel |-> FALSE, cancel_requested |-> FALSE, container_id |-> 0,
     rt_calls |-> 0, ret |-> "None", keys |-> {}, todo |-> {}]

\* What an ActionServer call returned: op is the call, pre what its lookup
\* of the id found ("unknown", "pending", "finished"), val the value.
Returned(op, pre, val) == [op |-> op, pre |-> pre, val |-> val, id |-> 0]

NewFrame(call, options) ==
    [IdleFrame EXCEPT !.pc = "created", !.call = call, !.options = options]

Init ==
    /\ running_actions = {}
    /\ next_uuid = 1
    /\ tasks = [a \in Slots |-> IdleFrame]
    /\ request = [a \in Slots |-> NoRequest]
    /\ action_response = [a \in Slots |-> NoResponse]
    /\ awaiting = [a \in Ids |-> 0]
    /\ last = Returned("none", "none", "None")
    /\ runtime \in {"None", "set"}
    /\ action_handlers = DefaultHandlers
    /\ factory_instance = FALSE
    /\ initialized = FALSE
    /\ runtime_lock = -1
    /\ containers = [c \in Cids |-> "absent"]
    /\ engine = [c \in Cids |-> "none"]
    /\ default_config = SandboxConfig("docker").value
    /\ config_ret = [op |-> "none", arg |-> "", raised |-> FALSE, value |-> NoConfig]
    /\ limits = [raised |-> FALSE, built |-> FALSE, value |-> DefaultLimits]
    /\ agents = [a \in AgentIds |-> "absent"]
    /\ agent_lock = FreeLock
    /\ task_lock = FreeLock
    /\ running_tasks = {}
    /\ bg = [a \in AgentIds |-> NoTask]
    /\ ctl = [c \in Callers |-> IdleCall]
    /\ sessions = [s \in SessionIds |-> NoSession]
    /\ mgr = IdleMgr

----------------------------------------------------------------------------
(* One run of a coroutine works on a copy of the state it can touch.        *)

World(a) ==
    [a |-> a, frame |-> tasks[a], response |-> action_response[a],
     runtime |-> runtime, factory_instance |-> factory_instance,
     initialized |-> initialized, runtime_lock |-> runtime_lock,
     containers |-> containers, engine |-> engine]

Commit(w) ==
    /\ tasks' = [tasks EXCEPT ![w.a] = w.frame]
    /\ action_response' = [action_response EXCEPT ![w.a] = w.response]
    /\ runtime' = w.runtime
    /\ factory_instance' = w.factory_instance
    /\ initialized' = w.initialized
    /\ runtime_lock' = w.runtime_lock
    /\ containers' = w.containers
    /\ engine' = w.engine

----------------------------------------------------------------------------
(* ActionExecutor.execute_action: how the response is filled in *)

\* ActionResponse(action_id=..., status=RUNNING, metadata=...)
RunningResponse == [NoResponse EXCEPT !.status = "running"]

\* A variant that stores the result and leaves the status RUNNING.
CompletedResponse_unset(resp, result) == [resp EXCEPT !.result = <<result>>]

\* status = COMPLETED; result = result
CompletedResponse(resp, result) ==
    [resp EXCEPT !.status = "completed", !.result = <<result>>]

\* A variant that reports a handler's timeout as CANCELLED.
TimedOutResponse_cancelled(resp) ==
    [resp EXCEPT !.status = "cancelled", !.error = <<"timeout">>]

\* except asyncio.TimeoutError: status = TIMED_OUT; error = "..."
TimedOutResponse(resp) ==
    [resp EXCEPT !.status = "timed_out", !.error = <<"timeout">>]

\* except Exception as e: status = FAILED; error = str(e)
FailedResponse(resp, msg) ==
    [resp EXCEPT !.status = "failed", !.error = <<msg>>]

\* The handler returned `result`: execute_action returns the response.
Complete(w, result) ==
    [w EXCEPT !.response = CompletedResponse(w.response, result),
              !.frame.pc = "returned", !.frame.container_id = 0]

\* The handler raised asyncio.TimeoutError.
TimeOut(w) ==
    [w EXCEPT !.response = TimedOutResponse(w.response),
              !.frame.pc = "returned"]

\* An exception raised under the frame's coroutine.  Inside execute_action's
\* try block it becomes a FAILED response; a direct caller of the runtime
\* (create_container, get_instance) sees it raised.
Raise(w, msg) ==
    IF w.frame.call = "execute_action"
    THEN [w EXCEPT !.response = FailedResponse(w.response, msg),
                   !.frame.pc = "returned", !.frame.container_id = 0]
    ELSE [w EXCEPT !.frame.pc = "raised", !.frame.ret = msg]

\* A DockerRuntime method returns `val` to its direct caller.
Return(w, val) == [w EXCEPT !.frame.pc = "returned", !.frame.ret = val]

\* The handlers' result payloads; return_code is <<>> where the payload has
\* no such key, container_status is <<>> outside CHECK_STATUS.
Payload(success, return_code, container_status) ==
    [success |-> success, return_code |-> return_code,
     container_status |-> container_status]

----------------------------------------------------------------------------
(* DockerRuntime: the synchronous prefix of each operation, up to its await *)

\* A variant that leaves the lock held when the block is left.
ReleaseLock_keeps(w) == w

\* Leaving `async with self._lock` (by return or by exception) releases it.
ReleaseLock(w) ==
    IF w.runtime_lock = w.a THEN [w EXCEPT !.runtime_lock = -1] ELSE w

\* async with self._lock: taken at once when free, otherwise the coroutine
\* waits; then the `docker create` command is awaited while holding it.
AcquireLock(w) ==
    IF w.runtime_lock = -1
    THEN [w EXCEPT !.runtime_lock = w.a, !.frame.pc = "create"]
    ELSE [w EXCEPT !.frame.pc = "lock_wait"]

\* create_container: if not self._initialized: await self.initialize()
CreateContainerEnter(w) ==
    IF ~w.initialized
    THEN [w EXCEPT !.frame.pc = "initialize"]
    ELSE AcquireLock(w)

\* `container_id not in self._containers`
InTable(w, cid) == cid \in Cids /\ w.containers[cid] # "absent"

\* execute_command made to hold the runtime lock while the command runs.
ExecuteCommandEnter_exclusive(w, cid) ==
    IF ~InTable(w, cid)
    THEN Raise(w, "not_found")
    ELSE IF w.runtime_lock = -1
         THEN [w EXCEPT !.runtime_lock = w.a, !.frame.pc = "exec",
                        !.frame.container_id = cid]
         ELSE [w EXCEPT !.frame.pc = "lock_wait"]

\* execute_command: unknown container raises, else await wait_for(docker exec)
ExecuteCommandEnter(w, cid) ==
    IF ~InTable(w, cid)
    THEN Raise(w, "not_found")
    ELSE [w EXCEPT !.frame.pc = "exec", !.frame.container_id = cid]

\* copy_to_container / copy_from_container
CopyEnter(w, cid) ==
    IF ~InTable(w, cid)
    THEN Raise(w, "not_found")
    ELSE [w EXCEPT !.frame.pc = "copy", !.frame.container_id = cid]

\* get_container_status
GetContainerStatusEnter(w, cid) ==
    IF ~InTable(w, cid)
    THEN Raise(w, "not_found")
    ELSE [w EXCEPT !.frame.pc = "inspect", !.frame.container_id = cid]

\* stop_container: unknown container raises, else await `docker stop`
StopContainerEnter(w, cid) ==
    IF ~InTable(w, cid)
    THEN Raise(w, "not_found")
    ELSE [w EXCEPT !.frame.pc = "stop", !.frame.container_id = cid]

\* A variant that does not look the id up in the table.
RemoveContainerEnter_unchecked(w, cid) ==
    [w EXCEPT !.frame.pc = "rm_inspect", !.frame.container_id = cid]

\* remove_container: unknown container raises; else, inside its try block,
\* status = await self.get_container_status(container_id): `docker inspect`
RemoveContainerEnter(w, cid) ==
    IF ~InTable(w, cid)
    THEN Raise(w, "not_found")
    ELSE [w EXCEPT !.frame.pc = "rm_inspect", !.frame.container_id = cid]

\* cleanup_all: `for container_id in list(self._containers.keys()): await
\* self.cleanup_container(container_id)`.  The dict keeps insertion order,
\* which is the order of the ids.  cleanup_container returns at once for an
\* id that is no longer in the table and otherwise awaits remove_container,
\* whose result it drops.
RECURSIVE CleanupNext(_)
CleanupNext(w) ==
    IF w.frame.todo = {}
    THEN Return(w, "None")
    ELSE LET cid == CHOOSE c \in w.frame.todo : \A d \in w.frame.todo : c <= d
             w1 == [w EXCEPT !.frame.todo = @ \ {cid}]
         IN  IF ~InTable(w1, cid)
             THEN CleanupNext(w1)
             ELSE RemoveContainerEnter(w1, cid)

\* cleanup_all takes its copy of the keys and starts the loop.
CleanupAllEnter(w) ==
    LET keys == {c \in Cids : w.containers[c] # "absent"}
    IN  CleanupNext([w EXCEPT !.frame.keys = keys, !.frame.todo = keys])

\* A variant in which cleanup_all gives up after a removal that failed.
AfterRemove_gives_up(w) ==
    IF w.frame.call = "cleanup_all" /\ w.frame.pc = "returned"
    THEN IF w.frame.ret = "False" THEN Return(w, "None") ELSE CleanupNext(w)
    ELSE w

\* The remove_container that cleanup_container awaited has returned (True or
\* False): the loop of cleanup_all goes on.
AfterRemove(w) ==
    IF w.frame.call = "cleanup_all" /\ w.frame.pc = "returned"
    THEN CleanupNext(w)
    ELSE w

\* A call of a runtime operation by a handler is counted in the frame.
RuntimeCall(w) == [w EXCEPT !.frame.rt_calls = @ + 1]

----------------------------------------------------------------------------
(* ActionExecutor: the handlers, up to their first await *)

\* container_id = parameters.get("container_id"); if not container_id:
\* create a temporary container; then execute_command.
RunInContainer(w, cid) ==
    IF ~TruthyId(cid)
    THEN CreateContainerEnter(RuntimeCall(w))
    ELSE ExecuteCommandEnter(RuntimeCall(w), cid)

handle_execute_command(w, p) ==
    IF ~Truthy(p.command)
    THEN Raise(w, "missing_parameter")
    ELSE RunInContainer(w, p.container_id)

\* language defaults to "python" when the key is missing.
Language(p) == IF p.language = "None" THEN "python" ELSE p.language

handle_run_code(w, p) ==
    IF ~Truthy(p.code)
    THEN Raise(w, "missing_parameter")
    ELSE IF Language(p) \notin {"python", "javascript", "bash"}
    THEN Raise(w, "unsupported_language")
    ELSE RunInContainer(w, p.container_id)

handle_transfer_file(w, p) ==
    IF ~Truthy(p.source_path) \/ ~Truthy(p.destination_path)
    THEN Raise(w, "missing_parameter")
    ELSE IF ~TruthyId(p.container_id)
    THEN Raise(w, "missing_parameter")
    ELSE CopyEnter(RuntimeCall(w), p.container_id)

handle_get_file(w, p) ==
    IF ~Truthy(p.container_path) \/ ~Truthy(p.host_path)
    THEN Raise(w, "missing_parameter")
    ELSE IF ~TruthyId(p.container_id)
    THEN Raise(w, "missing_parameter")
    ELSE CopyEnter(RuntimeCall(w), p.container_id)

handle_put_file(w, p) == handle_transfer_file(w, p)

handle_delete_file(w, p) ==
    IF ~Truthy(p.file_path)
    THEN Raise(w, "missing_parameter")
    ELSE IF ~TruthyId(p.container_id)
    THEN Raise(w, "missing_parameter")
    ELSE ExecuteCommandEnter(RuntimeCall(w), p.container_id)

handle_list_directory(w, p) ==
    IF ~Truthy(p.directory_path)
    THEN Raise(w, "missing_parameter")
    ELSE IF ~TruthyId(p.container_id)
    THEN Raise(w, "missing_parameter")
    ELSE ExecuteCommandEnter(RuntimeCall(w), p.container_id)

handle_check_status(w, p) ==
    IF ~TruthyId(p.container_id)
    THEN Raise(w, "missing_parameter")
    ELSE GetContainerStatusEnter(RuntimeCall(w), p.container_id)

\* A handler registered through register_action_handler is caller code: it
\* awaits something of its own and ends as CustomDone decides.
handle_custom(w, p) == [w EXCEPT !.frame.pc = "custom"]

Handler(w, r) ==
    CASE r.action_type = "execute_command" -> handle_execute_command(w, r.parameters)
      [] r.action_type = "run_code" -> handle_run_code(w, r.parameters)
      [] r.action_type = "transfer_file" -> handle_transfer_file(w, r.parameters)
      [] r.action_type = "get_file" -> handle_get_file(w, r.parameters)
      [] r.action_type = "put_file" -> handle_put_file(w, r.parameters)
      [] r.action_type = "delete_file" -> handle_delete_file(w, r.parameters)
      [] r.action_type = "list_directory" -> handle_list_directory(w, r.parameters)
      [] r.action_type = "check_status" -> handle_check_status(w, r.parameters)
      [] OTHER -> handle_custom(w, r.parameters)

\* execute_action from the creation of the response: look the handler up,
\* raise inside the try block when there is none, else run the handler.
Dispatch(w, r) ==
    LET w1 == [w EXCEPT !.response = RunningResponse]
    IN  IF r.action_type \notin action_handlers
        THEN Raise(w1, "unsupported_type")
        ELSE Handler(w1, r)

\* execute_action from its first line: the runtime is obtained before the
\* try block.  get_instance stores a new DockerRuntime in the factory and
\* only then awaits its initialize(); an existing instance is returned as is.
execute_action(w, r) ==
    IF w.runtime = "None"
    THEN IF ~w.factory_instance
         THEN [w EXCEPT !.factory_instance = TRUE, !.frame.pc = "get_instance"]
         ELSE Dispatch([w EXCEPT !.runtime = "set"], r)
    ELSE Dispatch(w, r)

----------------------------------------------------------------------------
(* Resuming a coroutine when the engine command it awaits has exited.       *)

\* The id `docker create` prints: the engine's next unused container.
FreshCid(w) == CHOOSE c \in Cids : w.engine[c] = "none" /\ \A d \in Cids : d < c => w.engine[d] # "none"

\* Whether the awaited command can exit 0 in the engine's present state.
EngineCanSucceed(w) ==
    CASE w.frame.pc = "create" -> \E c \in Cids : w.engine[c] = "none"
      [] w.frame.pc = "start" -> w.engine[w.frame.container_id] = "created"
      [] w.frame.pc = "exec" -> w.engine[w.frame.container_id] = "running"
      [] w.frame.pc \in {"copy", "inspect", "stop", "rm_inspect", "rm_stop", "rm"} ->
            w.engine[w.frame.container_id] \notin {"none", "removed"}
      [] OTHER -> TRUE

\* options.dict(): SandboxRuntimeOptions is a dataclass (to_dict only); a
\* pydantic model such as SandboxConfig has dict().
HasDict(options) == options = "SandboxConfig"

\* create_container returned `cid` to its caller.  The handlers record it in
\* response.metadata["temp_container"] and go on to execute_command.
AfterCreate(w, cid) ==
    IF w.frame.call = "execute_action"
    THEN ExecuteCommandEnter(
             RuntimeCall([w EXCEPT !.response.temp_container = <<cid>>]), cid)
    ELSE [Return(w, "id") EXCEPT !.frame.container_id = cid]

\* create_container after `docker start` exited 0: register the container
\* ("options": options.dict()), leave the lock, return the id.
RegisterContainer(w) ==
    LET cid == w.frame.container_id
    IN  IF HasDict(w.frame.options)
        THEN AfterCreate(
                 ReleaseLock([w EXCEPT !.containers[cid] = "running"]), cid)
        ELSE Raise(ReleaseLock(w), "attribute_error")

\* The result the exec-based handlers build from execute_command's dict.
ExecPayload(r, success) ==
    IF r.action_type \in {"execute_command", "run_code"}
    THEN Payload(success, IF success THEN <<0>> ELSE <<-1>>, <<>>)
    ELSE Payload(success, <<>>, <<>>)

\* A variant of the copies that lets the failure of `docker cp` propagate.
AfterCopy_raises(w, ok) ==
    IF w.frame.call = "execute_action"
    THEN Complete(w, Payload(TRUE, <<>>, <<>>))
    ELSE IF ok THEN Return(w, "True") ELSE Raise(w, "engine")

\* A variant in which the handlers let an engine failure of `docker exec`
\* propagate as an exception.
AfterExec_raises(w, r, ok) ==
    IF ok
    THEN IF w.frame.call = "execute_action"
         THEN Complete(w, ExecPayload(r, TRUE))
         ELSE Return(w, "success")
    ELSE Raise(w, "engine")

\* What the runtime method that awaited `docker exec` or `docker cp` gives
\* its caller: execute_command a structured result, the copies a boolean.
\* The handlers build their payload from it (the copy handlers ignore it).
AfterExec(w, r, ok) ==
    IF w.frame.call = "execute_action"
    THEN Complete(w, ExecPayload(r, ok))
    ELSE Return(w, IF ok THEN "success" ELSE "failure")

AfterCopy(w, ok) ==
    IF w.frame.call = "execute_action"
    THEN Complete(w, Payload(TRUE, <<>>, <<>>))
    ELSE Return(w, IF ok THEN "True" ELSE "False")

\* get_container_status after `docker inspect`: the engine's State.Status,
\* or "unknown" when the command failed; both branches read the table
\* entry's name, a KeyError if the entry is gone.
InspectStatus(w, ok) ==
    IF ok THEN w.engine[w.frame.container_id] ELSE "unknown"

AfterInspect(w, ok) ==
    IF ~InTable(w, w.frame.container_id)
    THEN Raise(w, "key_error")
    ELSE IF w.frame.call = "execute_action"
    THEN Complete(w, Payload(TRUE, <<>>, <<InspectStatus(w, ok)>>))
    ELSE Return(w, InspectStatus(w, ok))

\* stop_container after `docker stop`: on exit 0 the engine has stopped the
\* container and the entry's status becomes "stopped"; any exception
\* (the command failed, the entry is gone) gives False.
StopContainerDone(w, ok) ==
    LET cid == w.frame.container_id
        w1 == IF ok
              THEN [w EXCEPT !.engine[cid] = IF @ = "running" THEN "exited" ELSE @]
              ELSE w
    IN  IF ok /\ InTable(w1, cid)
        THEN [world |-> [w1 EXCEPT !.containers[cid] = "stopped"], value |-> "True"]
        ELSE [world |-> w1, value |-> "False"]

\* remove_container after its get_container_status: stop first if the
\* status is "running", then `docker rm -f` (force defaults to True).
RemoveAfterInspect(w, ok) ==
    IF ~InTable(w, w.frame.container_id)
    THEN Return(w, "False")
    ELSE IF InspectStatus(w, ok) = "running"
    THEN [w EXCEPT !.frame.pc = "rm_stop"]
    ELSE [w EXCEPT !.frame.pc = "rm"]

\* A variant that deletes the entry before it looks at how `docker rm` ended.
RemoveAfterRm_deletes_first(w, ok) ==
    LET cid == w.frame.container_id
    IN  IF ~ok
        THEN Return([w EXCEPT !.containers[cid] = "absent"], "False")
        ELSE Return([w EXCEPT !.engine[cid] = "removed",
                              !.containers[cid] = "absent"], "True")

\* remove_container after `docker rm`: on exit 0 delete the entry and
\* return True; any exception gives False and leaves the table as it is.
RemoveAfterRm(w, ok) ==
    LET cid == w.frame.container_id
    IN  IF ~ok
        THEN Return(w, "False")
        ELSE IF InTable(w, cid)
        THEN Return([w EXCEPT !.engine[cid] = "removed",
                              !.containers[cid] = "absent"], "True")
        ELSE Return([w EXCEPT !.engine[cid] = "removed"], "False")

\* DockerRuntimeFactory.get_instance after initialize(): `docker version`
\* failing propagates out of execute_action (line 142 is before its try).
AfterGetInstance(w, r, ok) ==
    IF ~ok
    THEN [w EXCEPT !.frame.pc = "raised"]
    ELSE IF w.frame.call = "execute_action"
    THEN Dispatch([w EXCEPT !.initialized = TRUE, !.runtime = "set"], r)
    ELSE [w EXCEPT !.initialized = TRUE, !.frame.pc = "returned"]

\* The continuation of each await of _run_docker_command; ok: exit code 0.
Resume(w, r, ok) ==
    CASE w.frame.pc = "get_instance" -> AfterGetInstance(w, r, ok)
      [] w.frame.pc = "initialize" ->
            IF ok THEN AcquireLock([w EXCEPT !.initialized = TRUE])
                  ELSE Raise(w, "engine")
      [] w.frame.pc = "create" ->
            IF ok THEN [w EXCEPT !.engine[FreshCid(w)] = "created",
                                 !.frame.container_id = FreshCid(w),
                                 !.frame.pc = "start"]
                  ELSE Raise(ReleaseLock(w), "engine")
      [] w.frame.pc = "start" ->
            IF ok THEN RegisterContainer(
                           [w EXCEPT !.engine[w.frame.container_id] = "running"])
                  ELSE Raise(ReleaseLock(w), "engine")
      [] w.frame.pc = "exec" -> AfterExec(w, r, ok)
      [] w.frame.pc = "copy" -> AfterCopy(w, ok)
      [] w.frame.pc = "inspect" -> AfterInspect(w, ok)
      [] w.frame.pc = "stop" ->
            Return(StopContainerDone(w, ok).world, StopContainerDone(w, ok).value)
      [] w.frame.pc = "rm_inspect" -> AfterRemove(RemoveAfterInspect(w, ok))
      [] w.frame.pc = "rm_stop" ->
            [StopContainerDone(w, ok).world EXCEPT !.frame.pc = "rm"]
      [] w.frame.pc = "rm" -> AfterRemove(RemoveAfterRm(w, ok))
      [] OTHER -> w

EnginePc == {"get_instance", "initialize", "create", "start", "exec", "copy",
             "inspect", "stop", "rm_inspect", "rm_stop", "rm"}

\* A suspended frame that no cancellation is pending for.
Suspended(a, pcs) == tasks[a].pc \in pcs /\ ~tasks[a].must_cancel

ServerUnchanged ==
    /\ UNCHANGED <<running_actions, next_uuid, request, awaiting, last, action_handlers>>
    /\ AppsUnchanged

----------------------------------------------------------------------------
(* The coroutines' steps *)

\* The event loop runs a task created by submit_action for the first time.
Start(a) ==
    /\ a \in Ids
    /\ Suspended(a, {"created"})
    /\ Commit(execute_action(World(a), request[a]))
    /\ ServerUnchanged

\* _run_docker_command: the engine subprocess exits and the awaiting
\* coroutine runs on to its next await or to its end.
EngineReturn(a, ok) ==
    /\ Suspended(a, EnginePc)
    /\ ok => EngineCanSucceed(World(a))
    /\ Commit(Resume(World(a), request[a], ok))
    /\ ServerUnchanged

\* execute_command: asyncio.wait_for(docker exec, timeout) expires; the
\* runtime returns a structured failure and the handler its payload.
ExecTimeout(a) ==
    /\ Suspended(a, {"exec"})
    /\ Commit(IF tasks[a].call = "execute_action"
              THEN Complete(World(a), ExecPayload(request[a], FALSE))
              ELSE Return(World(a), "timeout"))
    /\ ServerUnchanged

\* The runtime lock was released and a waiting create_container takes it.
LockAcquired(a) ==
    /\ Suspended(a, {"lock_wait"})
    /\ runtime_lock = -1
    /\ Commit(AcquireLock(World(a)))
    /\ ServerUnchanged

\* The ways a caller-registered handler (any Callable) can end: it returns a
\* dict, returns None, raises asyncio.TimeoutError, or raises an exception
\* whose str() is a message or is empty (`raise Exception()`, a failed assert).
CustomOutcomes == {"result", "none", "timeout", "exception", "empty_exception"}

\* The outcomes explored for the tasks of the ActionServer.
ServerCustomOutcomes == {"result", "timeout", "exception"}

CustomOutcome(w, how) ==
    CASE how = "result" -> Complete(w, Payload(TRUE, <<>>, <<>>))
      [] how = "none" -> [w EXCEPT !.response.status = "completed",
                                   !.frame.pc = "returned"]
      [] how = "timeout" -> TimeOut(w)
      [] how = "empty_exception" -> Raise(w, "")
      [] OTHER -> Raise(w, "handler_error")

\* A variant in which the finishing task drops its own table entry.
CustomDone_forgets(a, how) ==
    /\ Suspended(a, {"custom"})
    /\ Commit(CustomOutcome(World(a), how))
    /\ running_actions' = running_actions \ {a}
    /\ UNCHANGED <<next_uuid, request, awaiting, last, action_handlers>>
    /\ AppsUnchanged

\* A caller-registered handler ends.
CustomDone(a, how) ==
    /\ Suspended(a, {"custom"})
    /\ Commit(CustomOutcome(World(a), how))
    /\ ServerUnchanged

\* Task.cancel() took effect: CancelledError is thrown into the coroutine at
\* its await.  It is a BaseException: no `except Exception` of the executor
\* or the runtime catches it, `async with` releases the lock, and the task
\* ends cancelled.  Only a caller-registered handler may swallow it.
DeliverCancel(a, swallow) ==
    /\ a \in Ids
    /\ tasks[a].must_cancel
    /\ ~Done(a)
    /\ swallow => tasks[a].pc = "custom"
    /\ Commit(IF swallow
              THEN [World(a) EXCEPT !.frame.must_cancel = FALSE]
              ELSE [ReleaseLock(World(a)) EXCEPT !.frame.must_cancel = FALSE,
                                                 !.frame.container_id = 0,
                                                 !.frame.pc = "cancelled"])
    /\ ServerUnchanged

----------------------------------------------------------------------------
(* ActionServer.  asyncio.Lock.acquire does not suspend when the lock is    *)
(* free, and no coroutine awaits while holding ActionServer._lock, so the   *)
(* lock is free at every await and each `async with self._lock` block runs  *)
(* within the action that reaches it.                                       *)

RuntimeUnchanged ==
    /\ UNCHANGED <<runtime, factory_instance, initialized, runtime_lock, containers,
                   engine>>
    /\ AppsUnchanged



\* task = self._running_actions.get(action_id); `task.done()`
Lookup(id) ==
    IF id \notin running_actions THEN "unknown"
    ELSE IF Done(id) THEN "finished"
    ELSE "pending"

\* A variant that creates the task and returns the id without storing it.
submit_action_unrecorded(r) ==
    /\ next_uuid <= MaxActions
    /\ tasks' = [tasks EXCEPT ![next_uuid] = NewFrame("execute_action", "SandboxRuntimeOptions")]
    /\ request' = [request EXCEPT ![next_uuid] = r]
    /\ next_uuid' = next_uuid + 1
    /\ last' = [Returned("submit_action", "none", "id") EXCEPT !.id = next_uuid]
    /\ UNCHANGED <<running_actions, action_response, awaiting, action_handlers>>
    /\ RuntimeUnchanged

\* submit_action: uuid4, create_task, store under the lock, return the id.
submit_action(r) ==
    /\ next_uuid <= MaxActions
    /\ tasks' = [tasks EXCEPT ![next_uuid] = NewFrame("execute_action", "SandboxRuntimeOptions")]
    /\ request' = [request EXCEPT ![next_uuid] = r]
    /\ running_actions' = running_actions \cup {next_uuid}
    /\ next_uuid' = next_uuid + 1
    /\ last' = [Returned("submit_action", "none", "id") EXCEPT !.id = next_uuid]
    /\ UNCHANGED <<action_response, awaiting, action_handlers>>
    /\ RuntimeUnchanged

\* task.result(): the coroutine's return value, or its exception re-raised.
TaskResult(id) ==
    CASE tasks[id].pc = "returned" -> "response"
      [] tasks[id].pc = "cancelled" -> "raise CancelledError"
      [] OTHER -> "raise Exception"

\* A variant that deletes the entry of an unfinished task as well.
get_action_result_evicts(id) ==
    /\ running_actions' = running_actions \ {id}
    /\ last' = Returned("get_action_result", Lookup(id),
                        IF Lookup(id) = "finished" THEN TaskResult(id) ELSE "None")
    /\ UNCHANGED <<next_uuid, tasks, request, action_response, awaiting,
                   action_handlers>>
    /\ RuntimeUnchanged

\* get_action_result: None for an unknown id or an unfinished task; else
\* delete the entry and return task.result().
get_action_result(id) ==
    /\ running_actions' = IF Lookup(id) = "finished"
                          THEN running_actions \ {id}
                          ELSE running_actions
    /\ last' = Returned("get_action_result", Lookup(id),
                        IF Lookup(id) = "finished" THEN TaskResult(id) ELSE "None")
    /\ UNCHANGED <<next_uuid, tasks, request, action_response, awaiting,
                   action_handlers>>
    /\ RuntimeUnchanged

\* A variant whose early return deletes the entry of a finished task.
cancel_action_drops(id) ==
    /\ \/ /\ Lookup(id) # "pending"
          /\ last' = Returned("cancel_action", Lookup(id), "False")
          /\ running_actions' = running_actions \ {id}
          /\ UNCHANGED <<tasks, awaiting>>
       \/ /\ Lookup(id) = "pending"
          /\ awaiting[id] < MaxWaiters
          /\ tasks' = [tasks EXCEPT ![id].must_cancel = TRUE,
                                    ![id].cancel_requested = TRUE]
          /\ awaiting' = [awaiting EXCEPT ![id] = @ + 1]
          /\ UNCHANGED <<last, running_actions>>
    /\ UNCHANGED <<next_uuid, request, action_response, action_handlers>>
    /\ RuntimeUnchanged

\* cancel_action up to `await task`: False for an unknown or finished task,
\* else task.cancel() and the caller suspends until the task is done.
cancel_action(id) ==
    /\ \/ /\ Lookup(id) # "pending"
          /\ last' = Returned("cancel_action", Lookup(id), "False")
          /\ UNCHANGED <<tasks, awaiting>>
       \/ /\ Lookup(id) = "pending"
          /\ awaiting[id] < MaxWaiters
          /\ tasks' = [tasks EXCEPT ![id].must_cancel = TRUE,
                                    ![id].cancel_requested = TRUE]
          /\ awaiting' = [awaiting EXCEPT ![id] = @ + 1]
          /\ UNCHANGED last
    /\ UNCHANGED <<running_actions, next_uuid, request, action_response,
                   action_handlers>>
    /\ RuntimeUnchanged

\* cancel_action from `await task` on.  A cancelled task makes the await
\* raise CancelledError: the handler at line 494 returns True and the entry
\* is left in the table.  A task that returned after all lets the call go on
\* to delete the entry (a KeyError if it is gone is caught: False).
cancel_action_resume(id) ==
    /\ awaiting[id] > 0
    /\ Done(id)
    /\ awaiting' = [awaiting EXCEPT ![id] = @ - 1]
    /\ CASE tasks[id].pc = "cancelled" ->
                /\ running_actions' = running_actions
                /\ last' = Returned("cancel_action", "pending", "True")
         [] tasks[id].pc = "returned" /\ id \in running_actions ->
                /\ running_actions' = running_actions \ {id}
                /\ last' = Returned("cancel_action", "pending", "True")
         [] OTHER ->
                /\ running_actions' = running_actions
                /\ last' = Returned("cancel_action", "pending", "False")
    /\ UNCHANGED <<next_uuid, tasks, request, action_response, action_handlers>>
    /\ RuntimeUnchanged

\* get_running_actions: list(self._running_actions.keys())
get_running_actions == running_actions

\* register_action_handler(ActionType.CUSTOM, handler)
register_action_handler ==
    /\ "custom" \notin action_handlers
    /\ action_handlers' = action_handlers \cup {"custom"}
    /\ UNCHANGED <<running_actions, next_uuid, tasks, request, action_response,
                   awaiting, last>>
    /\ RuntimeUnchanged

----------------------------------------------------------------------------
(* A caller that awaits the executor and the runtime directly (slot 0),     *)
(* one call after the other.                                                *)

DirectIdle == tasks[0].pc \in {"idle"} \cup DonePc

DirectCall(w, r) ==
    /\ DirectIdle
    /\ request' = [request EXCEPT ![0] = r]
    /\ Commit(w)
    /\ UNCHANGED <<running_actions, next_uuid, awaiting, last, action_handlers>>
    /\ AppsUnchanged

DirectWorld(call, options) ==
    [World(0) EXCEPT !.frame = NewFrame(call, options), !.response = NoResponse]

\* await executor.execute_action(r)
direct_execute_action(r) ==
    DirectCall(execute_action(DirectWorld("execute_action", "SandboxRuntimeOptions"), r), r)

\* await DockerRuntimeFactory.get_instance()
direct_get_instance ==
    /\ runtime = "None"
    /\ DirectCall(IF ~factory_instance
                  THEN [DirectWorld("get_instance", "SandboxRuntimeOptions")
                            EXCEPT !.factory_instance = TRUE, !.frame.pc = "get_instance"]
                  ELSE [DirectWorld("get_instance", "SandboxRuntimeOptions")
                            EXCEPT !.frame.pc = "returned"],
                  NoRequest)

\* await runtime.create_container(options), on the runtime the executor
\* uses; options is None or a SandboxRuntimeOptions, or a SandboxConfig
\* passed in its place (it has every attribute create_container reads).
direct_create_container(options) ==
    /\ runtime = "set" \/ factory_instance
    /\ DirectCall(CreateContainerEnter(DirectWorld("create_container", options)), NoRequest)

\* The caller holds a DockerRuntime (the executor's, or the factory's).
RuntimeAvailable == runtime = "set" \/ factory_instance

\* await runtime.execute_command(cid, command, timeout)
direct_execute_command(cid) ==
    /\ RuntimeAvailable
    /\ DirectCall(ExecuteCommandEnter(DirectWorld("execute_command", "SandboxRuntimeOptions"), cid),
                  NoRequest)

\* await runtime.copy_to_container(cid, host_path, container_path)
direct_copy_to_container(cid) ==
    /\ RuntimeAvailable
    /\ DirectCall(CopyEnter(DirectWorld("copy_to_container", "SandboxRuntimeOptions"), cid),
                  NoRequest)

\* await runtime.copy_from_container(cid, container_path, host_path)
direct_copy_from_container(cid) ==
    /\ RuntimeAvailable
    /\ DirectCall(CopyEnter(DirectWorld("copy_from_container", "SandboxRuntimeOptions"), cid),
                  NoRequest)

\* await runtime.get_container_status(cid)
direct_get_container_status(cid) ==
    /\ RuntimeAvailable
    /\ DirectCall(GetContainerStatusEnter(DirectWorld("get_container_status", "SandboxRuntimeOptions"), cid),
                  NoRequest)

\* await runtime.stop_container(cid)
direct_stop_container(cid) ==
    /\ RuntimeAvailable
    /\ DirectCall(StopContainerEnter(DirectWorld("stop_container", "SandboxRuntimeOptions"), cid),
                  NoRequest)

\* await runtime.remove_container(cid)
direct_remove_container(cid) ==
    /\ RuntimeAvailable
    /\ DirectCall(RemoveContainerEnter(DirectWorld("remove_container", "SandboxRuntimeOptions"), cid),
                  NoRequest)

\* await runtime.cleanup_all()
direct_cleanup_all ==
    /\ RuntimeAvailable
    /\ DirectCall(CleanupAllEnter(DirectWorld("cleanup_all", "SandboxRuntimeOptions")),
                  NoRequest)

\* get_all_containers: the ids of the entries in the list it returns (one
\* get_container_status per table entry, none of which raises) when no other
\* coroutine changes the table while it iterates.
get_all_containers == {c \in Cids : containers[c] # "absent"}

----------------------------------------------------------------------------
(* SandboxConfigManager and the construction of ResourceLimits              *)

ConfigReturn(op, t, c) ==
    [op |-> op, arg |-> t, raised |-> c.raised, value |-> c.value]

get_default_config ==
    /\ default_config' = IF default_config = NoConfig
                         THEN SandboxConfig("docker").value
                         ELSE default_config
    /\ config_ret' = [op |-> "get_default_config", arg |-> "", raised |-> FALSE,
                      value |-> default_config']
    /\ UNCHANGED limits
    /\ BesideConfig

\* validate_config raises before the assignment to _default_config.
set_default_config(t) ==
    LET c == SandboxConfig(t)
    IN  /\ default_config' = IF c.raised THEN default_config ELSE c.value
        /\ config_ret' = ConfigReturn("set_default_config", t,
                                      [c EXCEPT !.value = NoConfig])
        /\ UNCHANGED limits
        /\ BesideConfig

create_config(t) ==
    /\ config_ret' = ConfigReturn("create_config", t, SandboxConfig(t))
    /\ UNCHANGED <<default_config, limits>>
    /\ BesideConfig

\* The except clause logs and re-raises.
validate_and_create(t) ==
    /\ config_ret' = ConfigReturn("validate_and_create", t, SandboxConfig(t))
    /\ UNCHANGED <<default_config, limits>>
    /\ BesideConfig

new_ResourceLimits(kw) ==
    /\ limits' = ResourceLimits(kw)
    /\ UNCHANGED <<default_config, config_ret>>
    /\ BesideConfig

----------------------------------------------------------------------------
(* AgentController.  One run of a caller's coroutine works on a copy of the *)
(* controller's state, as for the runtime above.                            *)

AWorld(c) ==
    [c |-> c, frame |-> ctl[c], agents |-> agents, lock |-> agent_lock,
     running |-> running_tasks, bg |-> bg]

ACommit(w) ==
    /\ ctl' = [ctl EXCEPT ![w.c] = w.frame]
    /\ agents' = w.agents
    /\ agent_lock' = w.lock
    /\ running_tasks' = w.running
    /\ bg' = w.bg

AReturn(w, v) == [w EXCEPT !.frame.pc = "returned", !.frame.ret = v]

\* Leaving `async with self._agent_lock`.
AReleaseLock(w) == [w EXCEPT !.lock.holder = 0]

\* destroy_agent after stop_agent has returned: the agent is popped from the
\* table and destroyed, then the database row is updated.
DestroyAfterStop(w) ==
    [w EXCEPT !.agents[w.frame.agent_id] = "absent",
              !.frame.inner = "none",
              !.frame.pc = "db"]

\* stop_agent returns v: its `async with` releases the lock and the caller
\* of stop_agent goes on.
StopReturn(w, v) ==
    LET w1 == AReleaseLock(w)
    IN  IF w1.frame.call = "destroy_agent"
        THEN DestroyAfterStop(w1)
        ELSE AReturn(w1, v)

\* `del self._running_tasks[agent_id]` after `await task`: KeyError, caught
\* by `except Exception`, when the entry is gone.
StopAfterTask(w) ==
    LET a == w.frame.agent_id
    IN  IF a \in w.running
        THEN StopReturn([w EXCEPT !.running = @ \ {a}], "True")
        ELSE StopReturn(w, "False")

\* The body of stop_agent, the lock held.
StopBody(w) ==
    LET a == w.frame.agent_id
    IN  IF a \in w.running
        THEN IF TaskOver(w.bg[a])
             THEN StopAfterTask(w)
             ELSE [w EXCEPT !.bg[a].must_cancel = TRUE, !.frame.pc = "await_task"]
        ELSE IF w.agents[a] # "absent"
             THEN StopReturn([w EXCEPT !.agents[a] = "idle"], "True")
             ELSE StopReturn(w, "False")

\* Suspended in acquire().
AgentLockWait(w) ==
    [w EXCEPT !.lock.waiters = Append(@, w.c), !.frame.pc = "lock_wait"]

\* stop_agent's `async with self._agent_lock`.
StopEnter(w) ==
    IF LockFree(w.lock)
    THEN StopBody([w EXCEPT !.lock.holder = w.c])
    ELSE AgentLockWait(w)

\* run_agent after get_agent has returned the agent.
RunAgentBody(w) ==
    LET a == w.frame.agent_id
    IN  IF w.agents[a] = "absent" \/ ~is_active(w.agents[a])
        THEN AReturn(w, "None")
        ELSE AReturn([w EXCEPT !.bg[a] = [pc |-> "created", must_cancel |-> FALSE],
                               !.running = @ \cup {a}], "None")

\* What a method does once it holds the lock.
AfterAgentLock(w) ==
    LET a == w.frame.agent_id
        cur == IF w.frame.inner # "none" THEN w.frame.inner ELSE w.frame.call
    IN  CASE cur = "create_agent" -> [w EXCEPT !.frame.pc = "db"]
          [] cur = "get_agent" ->
                AReturn(AReleaseLock(w),
                        IF w.agents[a] = "absent" THEN "None" ELSE "agent")
          [] cur = "run_agent" -> RunAgentBody(AReleaseLock(w))
          [] cur = "stop_agent" -> StopBody(w)
          [] cur = "destroy_agent" -> StopEnter([w EXCEPT !.frame.inner = "stop_agent"])
          [] OTHER -> w

\* `async with self._agent_lock` at the head of a method.
AgentLockAcquire(w) ==
    IF LockFree(w.lock)
    THEN AfterAgentLock([w EXCEPT !.lock.holder = w.c])
    ELSE AgentLockWait(w)

CallerIdle(c) == ctl[c].pc \in {"idle", "returned"}

ACall(c, call, a) ==
    /\ ACommit(AgentLockAcquire([AWorld(c) EXCEPT
           !.frame = [IdleCall EXCEPT !.call = call, !.agent_id = a, !.pc = "called"]]))
    /\ UNCHANGED task_lock
    /\ BesideAgents

\* The database hands out the ids; at most MaxAgents rows are created.
create_agent(c) ==
    /\ Cardinality({a \in AgentIds : agents[a] = "absent"})
          > Cardinality({d \in Callers : /\ ctl[d].call = "create_agent"
                                         /\ ctl[d].pc \in {"lock_wait", "db"}})
    /\ CallerIdle(c)
    /\ ACall(c, "create_agent", 0)

get_agent(c, a) ==
    /\ CallerIdle(c)
    /\ ACall(c, "get_agent", a)

\* run_agent(agent_id, input, background=True) for an agent that has no
\* task still running.
run_agent(c, a) ==
    /\ TaskOver(bg[a])
    /\ \A d \in Callers : ~(ctl[d].call = "run_agent" /\ ctl[d].agent_id = a
                            /\ ctl[d].pc = "lock_wait")
    /\ CallerIdle(c)
    /\ ACall(c, "run_agent", a)

stop_agent(c, a) ==
    /\ CallerIdle(c)
    /\ ACall(c, "stop_agent", a)

destroy_agent(c, a) ==
    /\ CallerIdle(c)
    /\ ACall(c, "destroy_agent", a)

\* The first waiter of the released lock runs.
AgentLockAcquired(c) ==
    /\ ctl[c].pc = "lock_wait"
    /\ Woken(agent_lock, c)
    /\ ACommit(AfterAgentLock([AWorld(c) EXCEPT
           !.lock = [holder |-> c, waiters |-> Tail(agent_lock.waiters)]]))
    /\ UNCHANGED task_lock
    /\ BesideAgents

\* DatabaseService.create_agent / update_agent returns, or raises (ok = FALSE).
DbReturn(c, ok) ==
    /\ ctl[c].pc = "db"
    /\ LET w == AReleaseLock(AWorld(c))
           a == CHOOSE x \in AgentIds :
                    agents[x] = "absent" /\ \A y \in AgentIds : agents[y] = "absent" => x <= y
       IN  IF ctl[c].call = "create_agent"
           THEN IF ok
                THEN ACommit(AReturn([w EXCEPT !.agents[a] = "idle",
                                               !.frame.agent_id = a], "agent"))
                ELSE ACommit(AReturn(w, "None"))
           ELSE ACommit(AReturn(w, IF ok THEN "True" ELSE "False"))
    /\ UNCHANGED task_lock
    /\ BesideAgents

\* `await task` in stop_agent returns once the cancelled task has ended.
StopResume(c) ==
    /\ ctl[c].pc = "await_task"
    /\ TaskOver(bg[ctl[c].agent_id])
    /\ ACommit(StopAfterTask(AWorld(c)))
    /\ UNCHANGED task_lock
    /\ BesideAgents

\* The background task starts: `async with self._task_lock`, then agent.run
\* up to its first sleep.
BgStart(a) ==
    /\ bg[a].pc = "created"
    /\ ~bg[a].must_cancel
    /\ IF LockFree(task_lock)
       THEN /\ task_lock' = [task_lock EXCEPT !.holder = a]
            /\ bg' = [bg EXCEPT ![a].pc = "thinking"]
            /\ agents' = [agents EXCEPT ![a] = IF @ = "absent" THEN @ ELSE "thinking"]
       ELSE /\ task_lock' = [task_lock EXCEPT !.waiters = Append(@, a)]
            /\ bg' = [bg EXCEPT ![a].pc = "lock_wait"]
            /\ UNCHANGED agents
    /\ UNCHANGED <<agent_lock, running_tasks, ctl>>
    /\ BesideAgents

BgLockAcquired(a) ==
    /\ bg[a].pc = "lock_wait"
    /\ ~bg[a].must_cancel
    /\ Woken(task_lock, a)
    /\ task_lock' = [holder |-> a, waiters |-> Tail(task_lock.waiters)]
    /\ bg' = [bg EXCEPT ![a].pc = "thinking"]
    /\ agents' = [agents EXCEPT ![a] = IF @ = "absent" THEN @ ELSE "thinking"]
    /\ UNCHANGED <<agent_lock, running_tasks, ctl>>
    /\ BesideAgents

\* A sleep of agent.run ends; after the second the agent is COMPLETED, the
\* finally clause drops the task's entry and the task lock is released.
BgStep(a) ==
    /\ bg[a].pc \in {"thinking", "executing"}
    /\ ~bg[a].must_cancel
    /\ IF bg[a].pc = "thinking"
       THEN /\ bg' = [bg EXCEPT ![a].pc = "executing"]
            /\ agents' = [agents EXCEPT ![a] = IF @ = "absent" THEN @ ELSE "executing"]
            /\ UNCHANGED <<task_lock, running_tasks>>
       ELSE /\ bg' = [bg EXCEPT ![a].pc = "done"]
            /\ agents' = [agents EXCEPT ![a] = IF @ = "absent" THEN @ ELSE "completed"]
            /\ running_tasks' = running_tasks \ {a}
            /\ task_lock' = [task_lock EXCEPT !.holder = 0]
    /\ UNCHANGED <<agent_lock, ctl>>
    /\ BesideAgents

\* CancelledError is raised in the task: before its first step or in
\* acquire() the body never ran and the entry stays; in a sleep the finally
\* clause drops the entry and the task lock is released.
BgCancelled(a) ==
    /\ bg[a].must_cancel
    /\ bg[a].pc \in {"created", "lock_wait", "thinking", "executing"}
    /\ bg' = [bg EXCEPT ![a] = [pc |-> "cancelled", must_cancel |-> FALSE]]
    /\ IF bg[a].pc \in {"thinking", "executing"}
       THEN /\ running_tasks' = running_tasks \ {a}
            /\ task_lock' = [task_lock EXCEPT !.holder = 0]
       ELSE /\ UNCHANGED running_tasks
            /\ task_lock' = [task_lock EXCEPT !.waiters = Without(@, a)]
    /\ UNCHANGED <<agents, agent_lock, ctl>>
    /\ BesideAgents

----------------------------------------------------------------------------
(* ConversationManager.  Every method runs its whole body inside            *)
(* `async with self._session_lock`, so one method runs at a time: mgr is    *)
(* the frame of that method.  The timeout_handler tasks take no manager     *)
(* lock.                                                                    *)

SWorld == [frame |-> mgr, sessions |-> sessions]

SCommit(w) ==
    /\ mgr' = w.frame
    /\ sessions' = w.sessions

MReturn(w, v) == [w EXCEPT !.frame.pc = "returned", !.frame.ret = v]

MRaise(w) == [w EXCEPT !.frame.pc = "raised", !.frame.ret = "Exception"]

\* Leaving `async with self._lock` of the session.
SRelease(w, s) == [w EXCEPT !.sessions[s].lock.holder = 0]

\* self._timeout_task.cancel(): a handler that sleeps or waits for the lock
\* ends; one inside complete() is cancelled at its database await, which
\* releases the lock.
CancelTimer(w, s) ==
    LET t == w.sessions[s].timer
    IN  CASE t = "sleeping" -> [w EXCEPT !.sessions[s].timer = "over"]
          [] t = "lock_wait" ->
                [w EXCEPT !.sessions[s].timer = "over",
                          !.sessions[s].lock.waiters = Without(@, TimerTask)]
          [] t = "db" ->
                [w EXCEPT !.sessions[s].timer = "over",
                          !.sessions[s].lock.holder = 0]
          [] OTHER -> w

\* Session.set_timeout: the previous handler is cancelled, a new one created.
set_timeout(w, s) ==
    [CancelTimer(w, s) EXCEPT !.sessions[s].timer = "sleeping"]

\* Session.complete / Session.cancel once the lock is held: the status is
\* assigned, with no test of the current one, before the database await.
SetStatus(w, s, status) ==
    [w EXCEPT !.sessions[s].status = status, !.sessions[s].completed_at = TRUE]

\* What the manager's method does once it holds the session's lock.
AfterSessionLock(w) ==
    LET s == w.frame.sid
        call == w.frame.call
    IN  CASE call = "get_session_messages" ->
                IF w.sessions[s].messages
                THEN MReturn(SRelease(w, s), "messages")
                ELSE [w EXCEPT !.frame.pc = "db"]
          [] call = "add_message_to_session" -> [w EXCEPT !.frame.pc = "db"]
          [] call = "complete_session" ->
                [SetStatus(w, s, "completed") EXCEPT !.frame.pc = "db"]
          [] call = "cancel_session" ->
                [SetStatus(w, s, "canceled") EXCEPT !.frame.pc = "db"]
          [] OTHER -> w

\* `async with self._lock` of the session, entered by the manager's method.
SessionLockAcquire(w) ==
    LET s == w.frame.sid
    IN  IF LockFree(w.sessions[s].lock)
        THEN AfterSessionLock([w EXCEPT !.sessions[s].lock.holder = MgrTask])
        ELSE [w EXCEPT !.sessions[s].lock.waiters = Append(@, MgrTask),
                       !.frame.pc = "slock_wait"]

MgrIdle == mgr.pc \in {"idle", "returned", "raised"}

MCall(call, s) == [SWorld EXCEPT !.frame = [IdleMgr EXCEPT !.call = call, !.sid = s]]

\* The database hands out the ids; at most MaxSessions rows are created.
create_session ==
    /\ MgrIdle
    /\ \E s \in SessionIds :
          /\ sessions[s].status = "none"
          /\ \A x \in SessionIds : sessions[x].status = "none" => s <= x
          /\ SCommit([MCall("create_session", s) EXCEPT !.frame.pc = "db"])
    /\ BesideSessions

complete_session(s) ==
    /\ MgrIdle
    /\ LET w == MCall("complete_session", s)
       IN  IF ~sessions[s].in_table \/ sessions[s].status # "active"
           THEN SCommit(MReturn(w, "False"))
           ELSE SCommit(SessionLockAcquire(w))
    /\ BesideSessions

cancel_session(s) ==
    /\ MgrIdle
    /\ LET w == MCall("cancel_session", s)
       IN  IF ~sessions[s].in_table \/ sessions[s].status # "active"
           THEN SCommit(MReturn(w, "False"))
           ELSE SCommit(SessionLockAcquire(w))
    /\ BesideSessions

add_message_to_session(s) ==
    /\ MgrIdle
    /\ LET w == MCall("add_message_to_session", s)
       IN  IF ~sessions[s].in_table \/ sessions[s].status # "active"
           THEN SCommit(MReturn(w, "None"))
           ELSE SCommit(SessionLockAcquire(w))
    /\ BesideSessions

get_session_messages(s) ==
    /\ MgrIdle
    /\ LET w == MCall("get_session_messages", s)
       IN  IF ~sessions[s].in_table
           THEN SCommit(MReturn(w, "[]"))
           ELSE SCommit(SessionLockAcquire(w))
    /\ BesideSessions

\* cleanup() cancels the handler, the entry is deleted, then the database
\* row is.
delete_session(s) ==
    /\ MgrIdle
    /\ LET w == MCall("delete_session", s)
       IN  IF ~sessions[s].in_table
           THEN SCommit(MReturn(w, "False"))
           ELSE SCommit([CancelTimer(w, s) EXCEPT !.sessions[s].in_table = FALSE,
                                                  !.frame.pc = "db"])
    /\ BesideSessions

\* The manager's method, first waiter of the session's released lock, runs.
SessionLockAcquired ==
    /\ mgr.pc = "slock_wait"
    /\ Woken(sessions[mgr.sid].lock, MgrTask)
    /\ SCommit(AfterSessionLock([SWorld EXCEPT
           !.sessions[mgr.sid].lock =
               [holder |-> MgrTask, waiters |-> Tail(sessions[mgr.sid].lock.waiters)]]))
    /\ BesideSessions

\* The DatabaseService call the method awaits returns, or raises (ok = FALSE).
MgrDbReturn(ok) ==
    /\ mgr.pc = "db"
    /\ LET s == mgr.sid
           call == mgr.call
           w == SWorld
       IN  CASE call = "create_session" ->
                   IF ok
                   THEN SCommit(MReturn(set_timeout(
                            [w EXCEPT !.sessions[s] =
                                [NoSession EXCEPT !.in_table = TRUE,
                                                  !.status = "active"]], s), "session"))
                   ELSE SCommit(MRaise(w))
             [] call = "get_session_messages" ->
                   IF ok
                   THEN SCommit(MReturn(SRelease(w, s), "messages"))
                   ELSE SCommit(MRaise(SRelease(w, s)))
             [] call = "add_message_to_session" ->
                   IF ok
                   THEN SCommit(MReturn(set_timeout(
                            SRelease([w EXCEPT !.sessions[s].messages = TRUE], s), s),
                            "message"))
                   ELSE SCommit(MRaise(SRelease(w, s)))
             [] call \in {"complete_session", "cancel_session"} ->
                   IF ok
                   THEN SCommit(MReturn(SRelease(CancelTimer(w, s), s), "True"))
                   ELSE SCommit(MRaise(SRelease(w, s)))
             [] call = "delete_session" ->
                   IF ok THEN SCommit(MReturn(w, "True")) ELSE SCommit(MRaise(w))
             [] OTHER -> FALSE
    /\ BesideSessions

\* timeout_handler: the sleep is over; an active session is completed.
TimeoutFires(s) ==
    /\ sessions[s].timer = "sleeping"
    /\ LET w == SWorld
       IN  IF sessions[s].status # "active"
           THEN SCommit([w EXCEPT !.sessions[s].timer = "over"])
           ELSE IF LockFree(sessions[s].lock)
                THEN SCommit([SetStatus(w, s, "completed") EXCEPT
                                 !.sessions[s].lock.holder = TimerTask,
                                 !.sessions[s].timer = "db"])
                ELSE SCommit([w EXCEPT !.sessions[s].lock.waiters = Append(@, TimerTask),
                                       !.sessions[s].timer = "lock_wait"])
    /\ BesideSessions

\* The handler, first waiter of the session's released lock, runs complete().
TimerLockAcquired(s) ==
    /\ sessions[s].timer = "lock_wait"
    /\ Woken(sessions[s].lock, TimerTask)
    /\ SCommit([SetStatus(SWorld, s, "completed") EXCEPT
           !.sessions[s].lock =
               [holder |-> TimerTask, waiters |-> Tail(sessions[s].lock.waiters)],
           !.sessions[s].timer = "db"])
    /\ BesideSessions

\* update_conversation returns to the handler (or raises): complete() ends
\* and the lock is released.
TimerDbReturn(s) ==
    /\ sessions[s].timer = "db"
    /\ SCommit([SRelease(SWorld, s) EXCEPT !.sessions[s].timer = "over"])
    /\ BesideSessions

----------------------------------------------------------------------------
(* Specifications *)

\* The ActionServer with its tasks.
Next ==
    \/ \E r \in ServerRequests : submit_action(r)
    \/ \E id \in Ids : get_action_result(id)
    \/ \E id \in Ids : cancel_action(id)
    \/ \E id \in Ids : cancel_action_resume(id)
    \/ register_action_handler
    \/ \E a \in Ids : Start(a)
    \/ \E a \in Ids, ok \in BOOLEAN : EngineReturn(a, ok)
    \/ \E a \in Ids : LockAcquired(a)
    \/ \E a \in Ids, how \in ServerCustomOutcomes : CustomDone(a, how)
    \/ \E a \in Ids, swallow \in BOOLEAN : DeliverCancel(a, swallow)

Spec == Init /\ [][Next]_vars

\* The ActionServer with actions of the caller-registered handler only: the
\* tasks end in every way a task can (COMPLETED, FAILED, TIMED_OUT, raised,
\* cancelled) and create no container.
NextServer ==
    \/ \E r \in CustomRequests : submit_action(r)
    \/ \E id \in Ids : get_action_result(id)
    \/ \E id \in Ids : cancel_action(id)
    \/ \E id \in Ids : cancel_action_resume(id)
    \/ register_action_handler
    \/ \E a \in Ids : Start(a)
    \/ \E a \in Ids, ok \in BOOLEAN : EngineReturn(a, ok)
    \/ \E a \in Ids, how \in ServerCustomOutcomes : CustomDone(a, how)
    \/ \E a \in Ids, swallow \in BOOLEAN : DeliverCancel(a, swallow)

SpecServer == Init /\ [][NextServer]_vars

\* One caller driving ActionExecutor.execute_action and the runtime
\* directly, over every request shape.
NextExec ==
    \/ \E r \in AllRequests : direct_execute_action(r)
    \/ direct_get_instance
    \/ \E o \in {"SandboxRuntimeOptions", "SandboxConfig"} : direct_create_container(o)
    \/ register_action_handler
    \/ \E ok \in BOOLEAN : EngineReturn(0, ok)
    \/ ExecTimeout(0)
    \/ \E how \in CustomOutcomes : CustomDone(0, how)

SpecExec == Init /\ [][NextExec]_vars

\* One caller driving the DockerRuntime directly, one call after the other.
NextRuntime ==
    \/ direct_get_instance
    \/ \E o \in {"SandboxRuntimeOptions", "SandboxConfig"} : direct_create_container(o)
    \/ \E cid \in Cids : direct_execute_command(cid)
    \/ \E cid \in Cids : direct_copy_to_container(cid)
    \/ \E cid \in Cids : direct_copy_from_container(cid)
    \/ \E cid \in Cids : direct_get_container_status(cid)
    \/ \E cid \in Cids : direct_stop_container(cid)
    \/ \E cid \in Cids : direct_remove_container(cid)
    \/ direct_cleanup_all
    \/ \E ok \in BOOLEAN : EngineReturn(0, ok)
    \/ ExecTimeout(0)

SpecRuntime == Init /\ [][NextRuntime]_vars

\* A caller creates containers and submits commands that name them.
NextShared ==
    \/ direct_get_instance
    \/ direct_create_container("SandboxConfig")
    \/ \E r \in SharedRequests : submit_action(r)
    \/ \E a \in Ids : Start(a)
    \/ \E a \in Slots, ok \in BOOLEAN : EngineReturn(a, ok)
    \/ \E a \in Ids : ExecTimeout(a)

SpecShared == Init /\ [][NextShared]_vars

\* The configuration module on its own.
NextConfig ==
    \/ get_default_config
    \/ \E t \in TypeInputs : set_default_config(t)
    \/ \E t \in TypeInputs : create_config(t)
    \/ \E t \in TypeInputs : validate_and_create(t)
    \/ \E kw \in LimitsKwargs : new_ResourceLimits(kw)

SpecConfig == Init /\ [][NextConfig]_vars

\* Concurrent callers of the agent controller and the tasks it runs.
NextAgents ==
    \/ \E c \in Callers : create_agent(c)
    \/ \E c \in Callers, a \in AgentIds : get_agent(c, a)
    \/ \E c \in Callers, a \in AgentIds : run_agent(c, a)
    \/ \E c \in Callers, a \in AgentIds : stop_agent(c, a)
    \/ \E c \in Callers, a \in AgentIds : destroy_agent(c, a)
    \/ \E c \in Callers : AgentLockAcquired(c)
    \/ \E c \in Callers, ok \in BOOLEAN : DbReturn(c, ok)
    \/ \E c \in Callers : StopResume(c)
    \/ \E a \in AgentIds : BgStart(a)
    \/ \E a \in AgentIds : BgLockAcquired(a)
    \/ \E a \in AgentIds : BgStep(a)
    \/ \E a \in AgentIds : BgCancelled(a)

SpecAgents == Init /\ [][NextAgents]_vars

\* The conversation manager's methods and the sessions' timeout handlers.
NextSessions ==
    \/ create_session
    \/ \E s \in SessionIds : complete_session(s)
    \/ \E s \in SessionIds : cancel_session(s)
    \/ \E s \in SessionIds : add_message_to_session(s)
    \/ \E s \in SessionIds : get_session_messages(s)
    \/ \E s \in SessionIds : delete_session(s)
    \/ SessionLockAcquired
    \/ \E ok \in BOOLEAN : MgrDbReturn(ok)
    \/ \E s \in SessionIds : TimeoutFires(s)
    \/ \E s \in SessionIds : TimerLockAcquired(s)
    \/ \E s \in SessionIds : TimerDbReturn(s)

SpecSessions == Init /\ [][NextSessions]_vars

\* The same with the event loop's progress: a sleep ends, a task woken by a
\* released lock runs, a database call returns or raises.
SpecSessionsFair ==
    /\ SpecSessions
    /\ WF_vars(SessionLockAcquired)
    /\ WF_vars(\E ok \in BOOLEAN : MgrDbReturn(ok))
    /\ \A s \in SessionIds :
          /\ WF_vars(TimeoutFires(s))
          /\ WF_vars(TimerLockAcquired(s))
          /\ WF_vars(TimerDbReturn(s))

----------------------------------------------------------------------------
(* Properties of the ActionServer, checked under Spec and SpecServer *)

\* C1: once a submitted action's task has finished, get_action_result
\* removes the id from the table and returns the terminal ActionResponse.
C1_ConsumingRead ==
    [][\A id \in Ids :
         (get_action_result(id) /\ Lookup(id) = "finished")
            => /\ id \notin running_actions'
               /\ last'.val = "response"
               /\ action_response[id].status \in TerminalStatus]_vars

\* C2: cancel_action on a tracked, unfinished action returns true once the
\* task has stopped, and by then the id has left the table that
\* get_running_actions reports.
C2_CancelRemoves ==
    [][\A id \in Ids :
         cancel_action_resume(id)
            => /\ last'.val = "True"
               /\ id \notin get_running_actions']_vars

\* C3: cancel_action on an unknown id or a finished task returns false and
\* changes nothing: the table, the tasks and their responses are as before,
\* so a finished action's result is still there for get_action_result.
C3_CancelNoOp ==
    [][\A id \in Ids :
         (cancel_action(id) /\ Lookup(id) # "pending")
            => /\ last' = Returned("cancel_action", Lookup(id), "False")
               /\ UNCHANGED <<running_actions, tasks, action_response, awaiting>>
               /\ Lookup(id)' = Lookup(id)
               /\ TaskResult(id)' = TaskResult(id)]_vars

C3_Witness ==
    /\ last = Returned("cancel_action", "finished", "False")
    /\ \E id \in running_actions :
          /\ tasks[id].pc = "returned"
          /\ tasks[id].cancel_requested = FALSE
          /\ action_response[id].status \in TerminalStatus

\* C4: get_action_result for an unknown id or an unfinished task returns
\* None in the same step (it has no await at which to wait) and leaves the
\* table, the tasks and the pending cancellations unchanged.
C4_NonBlockingPoll ==
    [][\A id \in Ids :
         (get_action_result(id) /\ Lookup(id) # "finished")
            => /\ last' = Returned("get_action_result", Lookup(id), "None")
               /\ UNCHANGED <<running_actions, tasks, action_response, awaiting>>]_vars

C4_Witness ==
    /\ last = Returned("get_action_result", "pending", "None")
    /\ \E id \in running_actions : ~Done(id) /\ tasks[id].pc # "created"
    /\ \E id \in Ids : id < next_uuid /\ id \notin running_actions

\* C5: submit_action returns an id no earlier call returned and no task was
\* ever created under; when it returns the id is in the table, and its task
\* has not run yet.
C5_SubmitFreshRecorded ==
    [][\A r \in ServerRequests \cup CustomRequests, new \in Ids :
         (submit_action(r) /\ new = next_uuid)
            => /\ last'.op = "submit_action"
               /\ last'.id = new
               /\ \A old \in 1..(next_uuid - 1) : new # old
               /\ new \notin running_actions
               /\ tasks[new].pc = "idle"
               /\ new \in get_running_actions'
               /\ Lookup(new)' = "pending"
               /\ tasks'[new].pc = "created"]_vars

C5_Witness ==
    /\ last.op = "submit_action"
    /\ last.id = MaxActions
    /\ Lookup(last.id) = "pending"
    /\ \E id \in running_actions : id # last.id

\* C6: an id leaves the table only by a get_action_result that finds its
\* task finished or by a cancel_action that resumes after its await; no step
\* of the task itself, its completion included, removes it.
C6_RetainedUntilConsumed ==
    [][\A id \in running_actions :
         id \notin running_actions'
            => \/ get_action_result(id) /\ Lookup(id) = "finished"
               \/ cancel_action_resume(id)]_vars

C6_Witness ==
    /\ \E id \in running_actions :
          tasks[id].pc = "returned" /\ action_response[id].status = "completed"
    /\ \E id \in Ids : Done(id) /\ id \notin running_actions

C8_CancelledOnlyByCancel ==
    \A a \in Ids :
        action_response[a].status = "cancelled" => tasks[a].cancel_requested

C8_Witness ==
    \E a, b \in Ids :
        /\ tasks[a].pc = "cancelled" /\ tasks[a].cancel_requested
        /\ tasks[b].pc = "returned" /\ ~tasks[b].cancel_requested
        /\ action_response[b].status = "timed_out"

----------------------------------------------------------------------------
(* Properties of ActionExecutor.execute_action, checked under SpecExec *)

\* The call of execute_action by the direct caller has ended.
ExecuteActionEnded == tasks[0].call = "execute_action" /\ Done(0)

\* execute_action returned a FAILED response and called no runtime method.
FailedWithoutRuntimeCall ==
    /\ tasks[0].pc = "returned"
    /\ action_response[0].status = "failed"
    /\ action_response[0].result = <<>>
    /\ action_response[0].temp_container = <<>>
    /\ tasks[0].rt_calls = 0

\* C9: for a request whose action_type has no registered handler,
\* execute_action returns a FAILED response whose error says the type is not
\* supported, and calls no runtime operation.
C9_UnregisteredTypeFails ==
    (ExecuteActionEnded /\ request[0].action_type \notin action_handlers)
        => /\ FailedWithoutRuntimeCall
           /\ action_response[0].error = <<"unsupported_type">>

\* The required parameters of each built-in action type, and the languages
\* RUN_CODE accepts (an absent language stands for the default, python).
MissingRequired(r) ==
    LET p == r.parameters
        t == r.action_type
    IN  CASE t = "execute_command" -> ~Truthy(p.command)
          [] t = "run_code" ->
                ~Truthy(p.code) \/ p.language \notin {"None", "python", "javascript", "bash"}
          [] t \in {"transfer_file", "put_file"} ->
                ~Truthy(p.source_path) \/ ~Truthy(p.destination_path)
                    \/ ~TruthyId(p.container_id)
          [] t = "get_file" ->
                ~Truthy(p.container_path) \/ ~Truthy(p.host_path)
                    \/ ~TruthyId(p.container_id)
          [] t = "delete_file" -> ~Truthy(p.file_path) \/ ~TruthyId(p.container_id)
          [] t = "list_directory" ->
                ~Truthy(p.directory_path) \/ ~TruthyId(p.container_id)
          [] t = "check_status" -> ~TruthyId(p.container_id)
          [] OTHER -> FALSE

\* C10: a built-in request that lacks a required parameter (or gives an
\* empty one), or a RUN_CODE request in an unsupported language, ends in a
\* FAILED response with no runtime call made.
C10_InvalidRequestFails ==
    (ExecuteActionEnded /\ request[0].action_type \in DefaultHandlers
                        /\ MissingRequired(request[0]))
        => FailedWithoutRuntimeCall

\* C11: when the deadline request.timeout expires before the handler's work
\* (here the `docker exec` of an EXECUTE_COMMAND, RUN_CODE, DELETE_FILE or
\* LIST_DIRECTORY) has finished, execute_action returns TIMED_OUT.
C11_DeadlineGivesTimedOut ==
    [][(ExecTimeout(0) /\ tasks[0].call = "execute_action")
          => /\ tasks'[0].pc = "returned"
             /\ action_response'[0].status = "timed_out"]_vars

\* C12: execute_action never lets an exception escape: every call that has
\* ended has returned a response, and a response that reports an exception
\* is FAILED and carries its message.
C12_NoExceptionEscapes ==
    ExecuteActionEnded
        => /\ tasks[0].pc = "returned"
           /\ action_response[0].status \in TerminalStatus
           /\ action_response[0].status = "failed" => action_response[0].error # <<>>

\* C13: a response returned by execute_action is terminal and has exactly
\* one of result and error: COMPLETED has a result and no error; FAILED and
\* TIMED_OUT have a non-empty error string and no result.
C13_ResultXorError ==
    (tasks[0].call = "execute_action" /\ tasks[0].pc = "returned")
        => LET resp == action_response[0]
           IN  /\ resp.status \in TerminalStatus
               /\ resp.status = "completed"
                     => resp.result # <<>> /\ resp.error = <<>>
               /\ resp.status \in {"failed", "timed_out"}
                     => resp.error # <<>> /\ resp.error # <<"">> /\ resp.result = <<>>

\* An EXECUTE_COMMAND or RUN_CODE request with valid parameters.
ValidExecRequest(r) ==
    r.action_type \in {"execute_command", "run_code"} /\ ~MissingRequired(r)

\* C14: for an EXECUTE_COMMAND or RUN_CODE request with valid parameters,
\* no step of a call that was given a container_id creates a container, and
\* a call without container_id that has returned (no engine command having
\* failed) has created its one container and recorded the id in
\* response.metadata['temp_container'].
C14_TempContainer ==
    [][(tasks'[0].call = "execute_action" /\ ValidExecRequest(request'[0]))
          => IF TruthyId(request'[0].parameters.container_id)
             THEN \A c \in Cids : engine[c] = "none" => engine'[c] = "none"
             ELSE (tasks'[0].pc = "returned" /\ action_response'[0].error # <<"engine">>)
                     => \E c \in Cids :
                           /\ action_response'[0].temp_container = <<c>>
                           /\ containers'[c] = "running"
                           /\ engine'[c] # "none"]_vars

\* C15: when `docker create` and `docker start` have both exited 0,
\* create_container returns the new id and has registered it with status
\* 'running'; when the call raises, the container table is unchanged.
C15_CreateRegisters ==
    [][tasks[0].call = "create_container"
          => LET cid == tasks[0].container_id
             IN  /\ (tasks[0].pc = "start" /\ engine'[cid] = "running")
                       => /\ tasks'[0].pc = "returned"
                          /\ tasks'[0].ret = "id"
                          /\ tasks'[0].container_id = cid
                          /\ containers'[cid] = "running"
                 /\ tasks'[0].pc = "raised" => containers' = containers]_vars

\* C16: the lifecycle round trip.  A get_container_status whose inspect
\* succeeded reports 'running' for a container that was created and not
\* stopped, and 'stopped' for one that stop_container has stopped; after a
\* remove_container that returned True the id is not in get_all_containers.
C16_LifecycleStatus ==
    LET cid == tasks[0].container_id
    IN  /\ (/\ tasks[0].call = "get_container_status"
            /\ tasks[0].pc = "returned"
            /\ tasks[0].ret # "unknown")
               => /\ containers[cid] = "running" => tasks[0].ret = "running"
                  /\ containers[cid] = "stopped" => tasks[0].ret = "stopped"
        /\ (/\ tasks[0].call = "remove_container"
            /\ tasks[0].pc = "returned"
            /\ tasks[0].ret = "True")
               => cid \notin get_all_containers

\* C17: remove_container deletes the table entry only after `docker rm` has
\* succeeded: an entry leaves the table only in the step in which the rm of
\* a remove_container for that id (called directly or by cleanup_all) exits
\* 0, and then at once; when the rm fails the entry stays.  A direct call
\* returns True in the first case and False in the second.
C17_RemoveAfterEngine ==
    [][\A c \in Cids :
          LET atRm == /\ tasks[0].call \in {"remove_container", "cleanup_all"}
                      /\ tasks[0].pc = "rm"
                      /\ tasks[0].container_id = c
          IN  /\ (containers[c] # "absent" /\ containers'[c] = "absent")
                    => atRm /\ engine'[c] = "removed"
              /\ atRm => /\ containers[c] # "absent"
                         /\ IF engine'[c] = "removed"
                            THEN containers'[c] = "absent"
                            ELSE containers'[c] = containers[c]
              /\ (atRm /\ tasks[0].call = "remove_container")
                    => /\ tasks'[0].pc = "returned"
                       /\ tasks'[0].ret = IF engine'[c] = "removed" THEN "True" ELSE "False"]_vars

\* A remove_container whose `docker rm` failed has returned False; the
\* container is still in the engine and in the table.
C17_Witness ==
    /\ tasks[0].call = "remove_container"
    /\ tasks[0].pc = "returned"
    /\ tasks[0].ret = "False"
    /\ containers[tasks[0].container_id] # "absent"
    /\ engine[tasks[0].container_id] \in {"running", "exited"}

\* C18: remove_container issues `docker stop` before `docker rm` on a
\* container that is still running: when it goes on to the rm while the
\* container runs, it comes from its stop.  Whether or not stop_container
\* was called before, a remove_container that returned True leaves the
\* container absent from the engine and from the table.
C18_StopBeforeRemove ==
    [][LET cid == tasks[0].container_id
       IN  /\ (/\ tasks[0].call = "remove_container"
               /\ tasks'[0].pc = "rm"
               /\ engine[cid] = "running")
                  => tasks[0].pc = "rm_stop"
           /\ (/\ tasks'[0].call = "remove_container"
               /\ tasks'[0].pc = "returned"
               /\ tasks'[0].ret = "True")
                  => /\ engine'[tasks'[0].container_id] = "removed"
                     /\ containers'[tasks'[0].container_id] = "absent"]_vars

\* A call of one of the runtime operations that take a container id.
ContainerIdCall(cid) ==
    \/ direct_execute_command(cid)
    \/ direct_copy_to_container(cid)
    \/ direct_copy_from_container(cid)
    \/ direct_get_container_status(cid)
    \/ direct_stop_container(cid)
    \/ direct_remove_container(cid)

\* C19: each of execute_command, copy_to_container, copy_from_container,
\* get_container_status, stop_container and remove_container, called with
\* an id that is not in the table (never created, or already removed),
\* fails at once with the 'not found' exception: no engine command is
\* issued and neither the table nor the engine changes.
C19_AbsentIdNotFound ==
    [][\A cid \in Cids :
          (containers[cid] = "absent" /\ ContainerIdCall(cid))
              => /\ tasks'[0].pc = "raised"
                 /\ tasks'[0].ret = "not_found"
                 /\ containers' = containers
                 /\ engine' = engine]_vars

\* remove_container was called again for a container that an earlier
\* remove_container had removed, and failed with 'not found'.
C19_Witness ==
    /\ tasks[0].call = "remove_container"
    /\ tasks[0].pc = "raised"
    /\ tasks[0].ret = "not_found"
    /\ \E c \in Cids : engine[c] = "removed" /\ containers[c] = "absent"

\* C20: for a container in the table, a failing or timed-out engine command
\* never makes execute_command, copy_to_container or copy_from_container
\* raise: execute_command returns its structured failure (the engine's error,
\* or the timeout), the copies return False, and the table is unchanged.
C20_EngineFailureReturned ==
    [][LET call == tasks[0].call
           failed == EngineReturn(0, FALSE)
       IN  /\ (call = "execute_command" /\ failed)
                 => /\ tasks'[0].pc = "returned"
                    /\ tasks'[0].ret = "failure"
                    /\ containers' = containers
           /\ (call = "execute_command" /\ ExecTimeout(0))
                 => /\ tasks'[0].pc = "returned"
                    /\ tasks'[0].ret = "timeout"
                    /\ containers' = containers
           /\ (call \in {"copy_to_container", "copy_from_container"} /\ failed)
                 => /\ tasks'[0].pc = "returned"
                    /\ tasks'[0].ret = "False"
                    /\ containers' = containers]_vars

\* copy_to_container on a container of the table has returned False after
\* its `docker cp` failed.
C20_Witness ==
    /\ tasks[0].call = "copy_to_container"
    /\ tasks[0].pc = "returned"
    /\ tasks[0].ret = "False"
    /\ containers[tasks[0].container_id] # "absent"

\* C21: cleanup_all never raises and visits every id its copy of the keys
\* holds: a removal that fails is followed by the removal of the next id,
\* and when cleanup_all has returned nothing is left to visit and the table
\* holds, of those ids, exactly the ones whose container is still in the
\* engine (their removal failed).
C21_CleanupAllBestEffort ==
    tasks[0].call = "cleanup_all"
        => /\ tasks[0].pc # "raised"
           /\ tasks[0].pc = "returned"
                 => /\ tasks[0].todo = {}
                    /\ \A c \in tasks[0].keys :
                          containers[c] # "absent" <=> engine[c] # "removed"
                    /\ \A c \in Cids \ tasks[0].keys : containers[c] = "absent"

\* cleanup_all has returned after visiting two containers: the removal of
\* the first failed and the second was removed.
C21_Witness ==
    /\ tasks[0].call = "cleanup_all"
    /\ tasks[0].pc = "returned"
    /\ tasks[0].keys = {1, 2}
    /\ containers[1] # "absent"
    /\ containers[2] = "absent"
    /\ engine[2] = "removed"

\* C22: every mutation of the runtime's container table (registration,
\* status update, deletion) is made by a coroutine that holds the runtime's
\* lock.
C22_TableMutatedUnderLock ==
    [][containers' # containers => runtime_lock = 0]_vars

\* C23: no task holds one of the two locks while it waits for the other.
\* The ActionServer's lock is taken and released within one step of
\* submit_action, get_action_result or cancel_action, none of which touches
\* the runtime's lock; the holder of the runtime's lock awaits an engine
\* command only, and a task that waits for the runtime's lock holds nothing
\* and waits for a holder that can go on.
C23_NoLockHeldWhileWaiting ==
    [][/\ running_actions' # running_actions => runtime_lock' = runtime_lock
       /\ \A a \in Slots :
             /\ runtime_lock' = a => tasks'[a].pc \in {"create", "start"}
             /\ tasks'[a].pc = "lock_wait"
                   => /\ runtime_lock' # a
                      /\ runtime_lock' # -1 => ~Done(runtime_lock)']_vars

\* One action's create_container holds the runtime's lock, a second action
\* waits for it, and a cancel_action awaits that second action.
C23_Witness ==
    \E a, b \in Ids :
        /\ runtime_lock = a
        /\ tasks[b].pc = "lock_wait"
        /\ awaiting[b] > 0

\* C24: the deadline is applied to every action type: whenever
\* execute_action waits for an engine command (docker version, create,
\* start, exec, cp), the expiry of the deadline can end the wait, so that
\* the call returns even if the command never does.
C24_DeadlineOnEveryWait ==
    (tasks[0].call = "execute_action" /\ tasks[0].pc \in EnginePc)
        => ENABLED ExecTimeout(0)

\* C25: an EXECUTE_COMMAND action with a command and no container_id that
\* was submitted through submit_action and whose engine commands all
\* succeeded ends with the response get_action_result hands out being
\* COMPLETED, with success true and return_code 0.
C25_SubmittedCommandCompletes ==
    \A a \in Ids :
        (/\ request[a].action_type = "execute_command"
         /\ Truthy(request[a].parameters.command)
         /\ ~TruthyId(request[a].parameters.container_id)
         /\ tasks[a].pc = "returned"
         /\ action_response[a].error # <<"engine">>)
            => /\ action_response[a].status = "completed"
               /\ action_response[a].result = <<Payload(TRUE, <<0>>, <<>>)>>

----------------------------------------------------------------------------
(* Properties of the sandbox configuration, checked under SpecConfig *)

\* C26: create_config and validate_and_create with a sandbox_type outside
\* {docker, local, kubernetes, remote} raise a validation error and return no
\* config, and neither the default config nor the container table changes.
C26_UnknownTypeRejected ==
    [][\A t \in TypeInputs \ SandboxType :
          (create_config(t) \/ validate_and_create(t)) =>
              /\ config_ret'.raised
              /\ config_ret'.value = NoConfig
              /\ default_config' = default_config
              /\ containers' = containers]_vars

C26_Witness ==
    /\ config_ret.op = "validate_and_create"
    /\ config_ret.arg = "bogus"
    /\ config_ret.raised
    /\ default_config.sandbox_type = "local"

\* A decimal string: digits with at most one point.
Decimal(v) == count(v, ".") <= 1 /\ isdigit(replace_first(v, "."))

PositiveDecimal(v) == Decimal(v) /\ \E i \in 1..Len(v) : v[i] \in Digits \ {"0"}

\* A numeric magnitude followed by one suffix, or a raw byte integer.
SizeString(v) ==
    \/ isdigit(v)
    \/ /\ Len(v) >= 2
       /\ v[Len(v)] \in valid_suffixes
       /\ Decimal(SubSeq(v, 1, Len(v) - 1))

\* C27: a ResourceLimits is constructed only if cpu is a positive decimal
\* string, memory and disk are a numeric magnitude with one suffix of K, M, G,
\* T or a raw byte integer, and timeout is greater than zero.
C27_LimitsWellFormed ==
    limits.built =>
        /\ PositiveDecimal(limits.value.cpu)
        /\ SizeString(limits.value.memory)
        /\ SizeString(limits.value.disk)
        /\ limits.value.timeout > 0

----------------------------------------------------------------------------
(* Properties of the agent controller, checked under SpecAgents *)

\* C28: destroy_agent for a registered agent terminates and returns true,
\* after which the agent is no longer in the table.  A call that has not
\* returned is never waiting for a lock that it holds itself, and a call
\* that has returned gave True and left the agent absent.
C28_DestroyAgentReturns ==
    \A c \in Callers :
        ctl[c].call = "destroy_agent" =>
            /\ (ctl[c].pc = "lock_wait" /\ agents[ctl[c].agent_id] # "absent") =>
                   agent_lock.holder # c
            /\ (ctl[c].pc = "returned" /\ ctl[c].ret = "True") =>
                   agents[ctl[c].agent_id] = "absent"

----------------------------------------------------------------------------
(* Properties of the conversation manager, checked under SpecSessions *)

\* C29: a session's status changes at most once: complete_session and
\* cancel_session change nothing and return False unless the session is
\* ACTIVE, and once a session in the table is COMPLETED or CANCELED no
\* operation and no timeout changes its status.
C29_StatusChangesOnce ==
    [][\A s \in SessionIds :
          /\ (sessions[s].in_table /\ sessions[s].status \in {"completed", "canceled"}) =>
                sessions'[s].status = sessions[s].status
          /\ ((complete_session(s) \/ cancel_session(s)) /\ sessions[s].status # "active") =>
                (mgr'.ret = "False" /\ sessions' = sessions)]_vars

----------------------------------------------------------------------------
(* Properties of commands in a shared container, checked under SpecShared *)

\* The task in slot a was submitted with a command for a registered container.
ExecOnRegistered(a) ==
    /\ request[a].action_type = "execute_command"
    /\ Truthy(request[a].parameters.command)
    /\ request[a].parameters.container_id \in Cids
    /\ containers[request[a].parameters.container_id] # "absent"

\* C30: command execution in a registered container is not mutually
\* exclusive: a task that starts with a command for a registered container
\* goes straight to the engine's exec, whatever other tasks have in flight in
\* that container, and takes no lock; so two actions on one container id can
\* both have their exec in flight.
C30_ExecNotExclusive ==
    [][\A a \in Ids :
          (Start(a) /\ runtime = "set" /\ ExecOnRegistered(a)) =>
              /\ tasks'[a].pc = "exec"
              /\ tasks'[a].container_id = request[a].parameters.container_id
              /\ runtime_lock' = runtime_lock]_vars

C30_Witness ==
    \E a \in Ids, b \in Ids :
        /\ a # b
        /\ tasks[a].pc = "exec"
        /\ tasks[b].pc = "exec"
        /\ tasks[a].container_id = tasks[b].container_id
        /\ containers[tasks[a].container_id] = "running"
        /\ engine[tasks[a].container_id] = "running"

----------------------------------------------------------------------------
(* Further properties of the ActionServer *)

\* Every cancel_action call for id has returned, and returned True: the
\* task ended cancelled and no caller is still suspended at `await task`.
CancelReturnedTrue(id) ==
    /\ tasks[id].cancel_requested
    /\ tasks[id].pc = "cancelled"
    /\ awaiting[id] = 0

\* C31: after cancel_action has returned true for an action id,
\* get_action_result for that id returns None and never raises.
C31_NoneAfterCancel ==
    [][\A id \in Ids :
          (get_action_result(id) /\ CancelReturnedTrue(id)) =>
              last'.val = "None"]_vars

\* C32: for a finished action, of the concurrent get_action_result and
\* cancel_action calls for its id at most one obtains the response (the read
\* that does removes the entry, so no later one finds it), the others return
\* None or False, and none raises.
C32_OneReaderNoRaise ==
    [][\A id \in Ids :
          /\ (get_action_result(id) /\ Done(id)) =>
                /\ last'.val \in {"response", "None"}
                /\ last'.val = "response" =>
                      (id \in running_actions /\ id \notin running_actions')
          /\ (cancel_action(id) /\ Done(id)) =>
                (last'.val = "False" /\ running_actions' = running_actions)
          /\ cancel_action_resume(id) => last'.val \in {"True", "False"}]_vars

(* Engine containers and the runtime's table *)

\* create_container is between `docker create` and its registration of `c`.
BeingCreated(c) ==
    \E a \in Slots : tasks[a].pc = "start" /\ tasks[a].container_id = c

\* C33: every container that exists in the engine because of a
\* create_container call, and that was not removed, is present in the
\* runtime's table once that call is over: no failure path (`docker start`
\* failing after `docker create` succeeded, the registration failing after
\* the start) leaves an engine container the table does not track.
C33_EngineContainersTracked ==
    \A c \in Cids :
        (engine[c] \in {"created", "running", "exited"} /\ ~BeingCreated(c))
            => containers[c] # "absent"

(* The handlers' use of what the runtime returns *)

CopyTypes == {"transfer_file", "put_file", "get_file"}

\* C34: a TRANSFER_FILE, PUT_FILE or GET_FILE action reports
\* result.success = true only if the runtime's copy operation returned
\* True: when `docker cp` fails (copy_to_container / copy_from_container
\* return False) the response's result does not say success.
C34_CopySuccessMirrorsRuntime ==
    [][(/\ EngineReturn(0, FALSE)
        /\ tasks[0].call = "execute_action"
        /\ tasks[0].pc = "copy"
        /\ request[0].action_type \in CopyTypes)
          => \A res \in {action_response'[0].result[i] :
                            i \in DOMAIN action_response'[0].result} :
                ~res.success]_vars

ExecTypes == {"execute_command", "run_code", "delete_file", "list_directory"}

\* The payload a handler builds from a structured failure of execute_command.
FailurePayload(r) ==
    Payload(FALSE,
            IF r.action_type \in {"execute_command", "run_code"} THEN <<-1>> ELSE <<>>,
            <<>>)

\* C35: when execute_command returns a structured failure (the engine
\* command failed, or execute_command's own timeout expired), an
\* EXECUTE_COMMAND, RUN_CODE, DELETE_FILE or LIST_DIRECTORY action ends
\* COMPLETED with error unset and result.success = false (return_code = -1
\* where the payload reports one); no step in which execute_command ends
\* makes such an action FAILED, which arises only from a raised exception.
C35_StructuredFailureCompletes ==
    [][(/\ tasks[0].call = "execute_action"
        /\ tasks[0].pc = "exec"
        /\ request[0].action_type \in ExecTypes)
          => /\ (EngineReturn(0, FALSE) \/ ExecTimeout(0))
                   => /\ tasks'[0].pc = "returned"
                      /\ action_response'[0].status = "completed"
                      /\ action_response'[0].error = <<>>
                      /\ action_response'[0].result = <<FailurePayload(request[0])>>
             /\ action_response'[0].status # "failed"]_vars

C35_Witness ==
    /\ tasks[0].call = "execute_action"
    /\ tasks[0].pc = "returned"
    /\ request[0].action_type = "delete_file"
    /\ action_response[0].status = "completed"
    /\ action_response[0].result = <<FailurePayload(request[0])>>

\* execute_action is in a handler that runs without a container_id and has
\* had `docker create` print the id of its temporary container.
HandlerCreated(c) ==
    /\ tasks[0].call = "execute_action"
    /\ request[0].action_type \in {"execute_command", "run_code"}
    /\ ~TruthyId(request[0].parameters.container_id)
    /\ tasks[0].pc \in {"start", "exec"}
    /\ tasks[0].container_id = c

\* C36: whenever a handler created a temporary container during
\* execute_action (the engine created and started it), the response the call
\* returns carries that container's id in metadata['temp_container'],
\* whatever its terminal status, and the executor does not remove the
\* container, which is in the runtime's table.
C36_TempContainerReported ==
    [][\A c \in Cids :
          (/\ HandlerCreated(c)
           /\ tasks'[0].pc = "returned"
           /\ engine'[c] = "running")
             => /\ action_response'[0].temp_container = <<c>>
                /\ containers'[c] # "absent"]_vars

(* Further properties of the AgentController *)

\* stop_agent(a) by caller c is in `await task`, and the task it cancelled
\* was executing agent.run: it has ended cancelled and its finally clause
\* has run.
StoppedWhileExecuting(c, a) ==
    /\ ctl[c].call = "stop_agent"
    /\ ctl[c].pc = "await_task"
    /\ ctl[c].agent_id = a
    /\ bg[a].pc = "cancelled"
    /\ a \notin running_tasks

\* C37: stop_agent(agent_id) for an agent whose background task is
\* executing cancels that task, returns True, and leaves no entry for
\* agent_id in the running-task table.
C37_StopExecutingReturnsTrue ==
    [][\A c \in Callers : \A a \in AgentIds :
          (StopResume(c) /\ StoppedWhileExecuting(c, a))
             => /\ ctl'[c].pc = "returned"
                /\ ctl'[c].ret = "True"
                /\ a \notin running_tasks']_vars

(* The sessions' timeout handlers, checked under SpecSessionsFair *)

\* The session's one timeout task is where its state says: it waits for the
\* session's lock or holds it exactly when it is in complete().
OneTimer(s) ==
    LET l == sessions[s].lock
    IN  /\ (\E i \in DOMAIN l.waiters : l.waiters[i] = TimerTask)
              <=> sessions[s].timer = "lock_wait"
        /\ l.holder = TimerTask <=> sessions[s].timer = "db"

Deleted(s) == ~sessions[s].in_table /\ sessions[s].status # "none"

ActiveInTable(s) == sessions[s].in_table /\ sessions[s].status = "active"

\* add_message_to_session(s) has stored its message and returns.
MessageStored(s) ==
    /\ mgr.call = "add_message_to_session"
    /\ mgr.sid = s
    /\ MgrDbReturn(TRUE)

\* C38: each session has at most one pending timeout task.  When
\* add_message_to_session, called on an ACTIVE session, has stored its
\* message, the previous handler is cancelled wherever it was and a new one
\* sleeps, and the session is still ACTIVE: no handler started before the
\* message has completed it.  A deleted session has no pending handler and
\* its status never changes; a handler that gets to run complete() sets the
\* session COMPLETED; and an ACTIVE session that receives no further message
\* does not stay ACTIVE.
C38_OneTimeoutTask ==
    /\ [](\A s \in SessionIds :
             /\ OneTimer(s)
             /\ Deleted(s) => sessions[s].timer \in {"none", "over"})
    /\ [][\A s \in SessionIds :
             /\ MessageStored(s) =>
                   /\ sessions'[s].timer = "sleeping"
                   /\ sessions'[s].status = "active"
             /\ Deleted(s) => sessions'[s].status = sessions[s].status
             /\ (TimerLockAcquired(s) \/ (TimeoutFires(s) /\ sessions'[s].timer = "db"))
                   => sessions'[s].status = "completed"]_vars
    /\ \A s \in SessionIds :
          (<>[][~add_message_to_session(s)]_vars)
              => (ActiveInTable(s) ~> ~ActiveInTable(s))

====
